---- MODULE Spec2Model ----
(***************************************************************************)
(* Domain availability checking of domainbot (convex/actions.ts): the      *)
(* checkDomains action in its GoDaddy and Namecheap versions, the          *)
(* per-domain GoDaddy lookup loop, the Namecheap sub-batch loop, response  *)
(* parsing and the mock (synthetic) availability generator.                *)
(*                                                                         *)
(* Strings are sequences of one-character strings, so that split, indexOf, *)
(* slice, the regular expressions and the character-code hash of the mock  *)
(* generator are computed as the code computes them.  An optional value    *)
(* (price?, errorMessage?) is a tuple: <<>> when undefined, <<v>> when     *)
(* defined.  A price in dollars is <<whole, millionths>>.                  *)
(***************************************************************************)
EXTENDS Integers, Sequences, FiniteSets, TLC

(* ------------------------------ bounds --------------------------------- *)

\* Longest domain list whose registrar responses are chosen freely per domain.
MaxDomains == 2

\* Long lists have MAX_DOMAINS_PER_REQUEST + k domains, k in 0..MaxLong.
MaxLong == 1

(* ------------------------- program constants --------------------------- *)

\* actions.ts:60  const MAX_DOMAINS_PER_REQUEST = 50
MAX_DOMAINS_PER_REQUEST == 50

\* actions.ts:660  data.price / 1000000 (GoDaddy returns price in micros)
MICROS_PER_UNIT == 1000000

\* actions.ts:663  price > 50
PREMIUM_THRESHOLD == 50

\* actions.ts:608  response.status === 429
HTTP_TOO_MANY_REQUESTS == 429

(* ------------------------------ strings -------------------------------- *)

LowerCase ==
  <<"a","b","c","d","e","f","g","h","i","j","k","l","m",
    "n","o","p","q","r","s","t","u","v","w","x","y","z">>

Digits == <<"0","1","2","3","4","5","6","7","8","9">>

UpperCase ==
  <<"A","B","C","D","E","F","G","H","I","J","K","L","M",
    "N","O","P","Q","R","S","T","U","V","W","X","Y","Z">>

\* String.prototype.toUpperCase on one character.
ToUpper(c) ==
  IF \E k \in 1..Len(LowerCase) : LowerCase[k] = c
  THEN UpperCase[CHOOSE k \in 1..Len(LowerCase) : LowerCase[k] = c]
  ELSE c

IsLower(c) == \E k \in 1..Len(LowerCase) : LowerCase[k] = c

\* String.prototype.charCodeAt(0) on the characters the model uses.
CharCode(c) ==
  IF IsLower(c) THEN 96 + (CHOOSE k \in 1..Len(LowerCase) : LowerCase[k] = c)
  ELSE IF \E k \in 1..Len(Digits) : Digits[k] = c
       THEN 47 + (CHOOSE k \in 1..Len(Digits) : Digits[k] = c)
  ELSE IF c = "." THEN 46
  ELSE IF c = "-" THEN 45
  ELSE 63

\* String.prototype.indexOf(c), 1-based; 0 stands for JavaScript's -1.
IndexOf(s, c) ==
  IF \E k \in 1..Len(s) : s[k] = c
  THEN CHOOSE k \in 1..Len(s) : s[k] = c /\ \A j \in 1..(k - 1) : s[j] # c
  ELSE 0

\* domain.split(".")[0]: the text before the first dot (all of it if no dot).
SplitFirst(s) ==
  IF IndexOf(s, ".") = 0 THEN s ELSE SubSeq(s, 1, IndexOf(s, ".") - 1)

\* domain.slice(domain.indexOf(".")): from the first dot on; slice(-1), the
\* last character, when there is no dot.
SliceFromFirstDot(s) ==
  IF IndexOf(s, ".") = 0
  THEN (IF Len(s) = 0 THEN <<>> ELSE SubSeq(s, Len(s), Len(s)))
  ELSE SubSeq(s, IndexOf(s, "."), Len(s))

StartsWith(s, p) == Len(s) >= Len(p) /\ SubSeq(s, 1, Len(p)) = p

AllLower(s) == \A k \in 1..Len(s) : IsLower(s[k])

\* /^(get|my|the|go)[a-z]+$/.test(name)
CommonPrefixes == { <<"g","e","t">>, <<"m","y">>, <<"t","h","e">>, <<"g","o">> }

MatchesCommonPrefix(name) ==
  \E p \in CommonPrefixes :
     /\ StartsWith(name, p)
     /\ Len(name) > Len(p)
     /\ AllLower(SubSeq(name, Len(p) + 1, Len(name)))

\* /^[a-z]{4}$/.test(name)
IsFourLetters(name) == Len(name) = 4 /\ AllLower(name)

RECURSIVE SumCodes(_)
\* [...domain].reduce((acc, c) => acc + c.charCodeAt(0), 0)
SumCodes(s) == IF s = <<>> THEN 0 ELSE CharCode(Head(s)) + SumCodes(Tail(s))

(* ------------------------------ results -------------------------------- *)

Undefined == <<>>

Some(v) == <<v>>

DomainCheckResult(d, a, p, pr, e) ==
  [domain |-> d, available |-> a, premium |-> p, price |-> pr, errorMessage |-> e]

\* An error result that reports the domain as available.
ErrorResult_Available(d, msg) == DomainCheckResult(d, TRUE, FALSE, Undefined, Some(msg))

\* The error result pushed at actions.ts:625-630 and 640-645.
ErrorResult(d, msg) == DomainCheckResult(d, FALSE, FALSE, Undefined, Some(msg))

(* --------------------------- mock generator ---------------------------- *)

\* A likely-taken test that cuts the domain at its last dot instead of its first.
MockIsLikelyTaken_LastDot(domain) ==
  LET dots == { k \in 1..Len(domain) : domain[k] = "." }
      cut  == IF dots = {} THEN Len(domain) + 1
              ELSE CHOOSE k \in dots : \A j \in dots : j <= k
      name == SubSeq(domain, 1, cut - 1)
      tld  == SubSeq(domain, cut, Len(domain))
  IN  \/ Len(name) <= 4
      \/ (tld = <<".","c","o","m">> /\ Len(name) <= 8)
      \/ MatchesCommonPrefix(name)

\* A likely-taken test without the short-name rule.
MockIsLikelyTaken_NoShortRule(domain) ==
  LET name == SplitFirst(domain)
      tld  == SliceFromFirstDot(domain)
  IN  \/ (tld = <<".","c","o","m">> /\ Len(name) <= 8)
      \/ MatchesCommonPrefix(name)

\* A likely-taken test whose short-name rule stops at three characters.
MockIsLikelyTaken_ThreeOrFewer(domain) ==
  LET name == SplitFirst(domain)
      tld  == SliceFromFirstDot(domain)
  IN  \/ Len(name) <= 3
      \/ (tld = <<".","c","o","m">> /\ Len(name) <= 8)
      \/ MatchesCommonPrefix(name)

MockIsLikelyTaken(domain) ==
  LET name == SplitFirst(domain)
      tld  == SliceFromFirstDot(domain)
  IN  \/ Len(name) <= 4
      \/ (tld = <<".","c","o","m">> /\ Len(name) <= 8)
      \/ MatchesCommonPrefix(name)

MockIsPremium(domain) ==
  LET name == SplitFirst(domain)
  IN  Len(name) <= 3 \/ IsFourLetters(name)

MockHash(domain) == SumCodes(domain)

MockOne(domain) ==
  LET hash         == MockHash(domain)
      randomFactor == hash % 100
      available    == ~MockIsLikelyTaken(domain) /\ randomFactor > 30
      premium      == MockIsPremium(domain) /\ available
  IN  DomainCheckResult(domain, available, premium,
        IF premium THEN <<500 + (hash % 9500), 0>> ELSE Undefined,
        Undefined)

RECURSIVE SumHashes(_)
\* The character codes of all the domains of a list, summed.
SumHashes(ds) == IF ds = <<>> THEN 0 ELSE SumCodes(Head(ds)) + SumHashes(Tail(ds))

\* A mock whose hash accumulator is shared by the whole list instead of being
\* started at 0 for each domain: a result then depends on the domains before it.
mockDomainAvailability_SharedAccumulator(domains) ==
  [k \in 1..Len(domains) |->
     LET domain    == domains[k]
         hash      == SumHashes(SubSeq(domains, 1, k))
         available == ~MockIsLikelyTaken(domain) /\ (hash % 100) > 30
         premium   == MockIsPremium(domain) /\ available
     IN  DomainCheckResult(domain, available, premium,
           IF premium THEN <<500 + (hash % 9500), 0>> ELSE Undefined,
           Undefined)]

\* domains.map((domain) => ...)
mockDomainAvailability(domains) ==
  [k \in 1..Len(domains) |-> MockOne(domains[k])]

(* -------------------------- GoDaddy responses -------------------------- *)

\* data.price / 1000000 as an exact quotient: <<whole, millionths>>.
ToUnits(micros) == <<micros \div MICROS_PER_UNIT, micros % MICROS_PER_UNIT>>

\* price > n for a price <<whole, millionths>>
PriceGreater(price, n) == price[1] > n \/ (price[1] = n /\ price[2] > 0)

\* data.price ? ... : undefined -- 0 and a missing price are falsy.
Truthy(optPrice) == optPrice # Undefined /\ optPrice[1] # 0

\* The threshold compared with the undivided (micro-unit) price.
parseGoDaddyResult_NoScale(domain, data) ==
  LET available == (data.available = "true")
      price     == IF Truthy(data.price) THEN <<data.price[1], 0>> ELSE Undefined
      premium   == available /\ price # Undefined /\ PriceGreater(price, PREMIUM_THRESHOLD)
  IN  DomainCheckResult(domain, available, premium,
                        IF premium THEN price ELSE Undefined, Undefined)

parseGoDaddyResult(domain, data) ==
  LET available == (data.available = "true")
      price     == IF Truthy(data.price) THEN ToUnits(data.price[1]) ELSE Undefined
      premium   == available /\ price # Undefined /\ PriceGreater(price, PREMIUM_THRESHOLD)
  IN  DomainCheckResult(domain, available, premium,
                        IF premium THEN price ELSE Undefined, Undefined)

(* ------------------------- inputs of the model ------------------------- *)

\* "aa.com", "shopster.io", "getfoo.dev"
Pool ==
  << <<"a","a",".","c","o","m">>,
     <<"s","h","o","p","s","t","e","r",".","i","o">>,
     <<"g","e","t","f","o","o",".","d","e","v">> >>

PoolSet == { Pool[k] : k \in 1..Len(Pool) }

RECURSIVE SeqsUpTo(_, _)
SeqsUpTo(S, n) ==
  IF n = 0 THEN { <<>> }
  ELSE LET shorter == SeqsUpTo(S, n - 1)
       IN  shorter \cup { Append(s, x) : s \in { t \in shorter : Len(t) = n - 1 }, x \in S }

\* Short lists are over the first two domains of the pool.
ShortLists == SeqsUpTo({ Pool[1], Pool[2] }, MaxDomains)

LongList(n) == [k \in 1..n |-> Pool[((k - 1) % Len(Pool)) + 1]]

LongLists == { LongList(MAX_DOMAINS_PER_REQUEST + k) : k \in 0..MaxLong }

DomainLists == ShortLists \cup LongLists

GoDaddyCredentials == { "GODADDY_API_KEY", "GODADDY_API_SECRET" }

NamecheapCredentials ==
  { "NAMECHEAP_API_USER", "NAMECHEAP_API_KEY", "NAMECHEAP_USERNAME", "NAMECHEAP_CLIENT_IP" }

\* The environment variables the handler of a provider reads.
CredentialsOf(p) == IF p = "godaddy" THEN GoDaddyCredentials ELSE NamecheapCredentials

Providers == { "godaddy", "namecheap" }

\* What one fetch of the GoDaddy endpoint can do.  kind:
\*   "data"    HTTP 200 with a JSON object {available?, price?}
\*   "null"    HTTP 200 with the JSON body null (parseGoDaddyResult throws)
\*   "invalid" HTTP 200 with a body that is not JSON (response.json() rejects)
\*   "status"  a non-OK HTTP status
\*   "reject"  fetch rejects with an Error
Response(kind, status, available, price) ==
  [kind |-> kind, status |-> status, available |-> available, price |-> price]

\* One JSON object per kind of result: available at the standard price,
\* available at a premium price, taken.
GdDataResponses ==
  { Response("data", 200, "true", <<11990000>>),
    Response("data", 200, "true", <<50000001>>),
    Response("data", 200, "false", Undefined) }

GdFailureResponses ==
  { Response("status", 429, "absent", Undefined),
    Response("status", 500, "absent", Undefined),
    Response("null", 200, "absent", Undefined),
    Response("invalid", 200, "absent", Undefined),
    Response("reject", 0, "absent", Undefined) }

GdResponses == GdDataResponses \cup GdFailureResponses

\* Long lists are answered uniformly: every fetch of the call gets the same
\* response, one of these.
GdUniformResponses ==
  { Response("data", 200, "true", <<50000001>>),
    Response("data", 200, "false", Undefined),
    Response("status", 429, "absent", Undefined),
    Response("status", 500, "absent", Undefined),
    Response("reject", 0, "absent", Undefined) }

(* ------------------------------- state --------------------------------- *)

VARIABLES
  provider,    \* which version of checkDomains is called
  env,         \* the credentials set in process.env, among those it reads
  domains,     \* the argument of the call
  pc,          \* where the call is
  i,           \* GoDaddy: index of the domain in the for loop; Namecheap: index of the sub-batch
  results,     \* the local results array of the registrar path
  hist,        \* responses received for the domain (sub-batch) being looked up
  attempts,    \* fetches issued for the domain being looked up
  looked,      \* indices of the domains a fetch was issued for
  fetchCount,  \* fetches issued during the call
  inFlight,    \* fetches issued and not yet settled
  netMode,     \* <<>>: responses chosen freely; <<r>>: every response is r
  status,      \* "pending", "resolved" or "rejected": the promise of the call
  returned,    \* the value the call resolved with
  path,        \* "mock", "registrar" or "fallback": what produced returned
  snapshot,    \* <<>> or <<domain, result>>: one mock result of an earlier call
  keywords,    \* generateDomainNames: the keywords argument
  options,     \* generateDomainNames: [tlds, maxResults], each <<>> or <<v>>
  suggestions, \* generateDomainNames: the suggestions Set, in insertion order
  candidates,  \* generateDomainNames: the returned array
  filePath,    \* modifySourceFile: the filePath argument
  requests,    \* modifySourceFile: the GitHub requests issued by the call
  commits,     \* modifySourceFile: the paths committed to the repository by the call
  modLog,      \* modifySourceFile: the paths logged by modifications.log during the call
  call,        \* the caller or mutation that ran last: its name, arguments and result
  db,          \* the Convex tables, each in creation order, with the id counters and the clock
  chat         \* ChatArea: the component's state and the position of handleSubmit

\* The variables of the callers, of the database and of the chat page.
appVars == << call, db, chat >>

\* ctx.db before any mutation ran.
EmptyDb ==
  [savedDomains |-> <<>>, users |-> <<>>, ideationStrategies |-> <<>>, themes |-> <<>>,
   nextId |-> [savedDomains |-> 1, users |-> 1, ideationStrategies |-> 1, themes |-> 1],
   clock |-> 0]

NoCall == [op |-> "none"]

\* The chat page is not mounted.
NoChat == [pc |-> "closed"]

AppIdle == call = NoCall /\ db = EmptyDb /\ chat = NoChat

vars ==
  << provider, env, domains, pc, i, results, hist, attempts, looked, fetchCount,
     inFlight, netMode, status, returned, path, snapshot,
     keywords, options, suggestions, candidates, filePath, requests, commits, modLog,
     call, db, chat >>

\* The variables of the agent tools, which checkDomains leaves alone.
otherVars ==
  << keywords, options, suggestions, candidates, filePath, requests, commits, modLog,
     call, db, chat >>

\* No tool call is under way.
ToolsIdle ==
  /\ keywords = <<>>
  /\ options = [tlds |-> <<>>, maxResults |-> <<>>]
  /\ suggestions = <<>>
  /\ candidates = <<>>
  /\ filePath = <<>>
  /\ requests = <<>>
  /\ commits = <<>>
  /\ modLog = <<>>
  /\ AppIdle

callVars ==
  << provider, env, domains, netMode >>

Init ==
  /\ provider = "godaddy"
  /\ env = {}
  /\ domains = <<>>
  /\ pc = "idle"
  /\ i = 1
  /\ results = <<>>
  /\ hist = <<>>
  /\ attempts = 0
  /\ looked = {}
  /\ fetchCount = 0
  /\ inFlight = 0
  /\ netMode = <<>>
  /\ status = "pending"
  /\ returned = <<>>
  /\ path = "none"
  /\ snapshot = <<>>
  /\ ToolsIdle

(* --------------------------- checkDomains ------------------------------ *)

\* A guard that takes one credential for all of them.
HasCredentials_AnyOne(p, e) == \E c \in CredentialsOf(p) : c \in e

\* if (!apiKey || !apiSecret) / if (!apiUser || !apiKey || !userName || !clientIp)
HasCredentials(p, e) == \A c \in CredentialsOf(p) : c \in e

\* A catch that lets the error out of the action.
HandlerCatch_Rethrow(ds, partial) ==
  [status |-> "rejected", value |-> <<>>]

\* A catch that keeps what the registrar had answered and mocks the rest.
HandlerCatch_KeepPartial(ds, partial) ==
  [status |-> "resolved",
   value  |-> partial \o mockDomainAvailability(SubSeq(ds, Len(partial) + 1, Len(ds)))]

\* catch (error) { ...; return mockDomainAvailability(domains); }
HandlerCatch(ds, partial) ==
  [status |-> "resolved", value |-> mockDomainAvailability(ds)]

\* The handler without credentials: mock mode, no registrar call.
CallUnconfigured(p, e, ds) ==
  /\ pc = "idle"
  /\ ~HasCredentials(p, e)
  /\ provider' = p
  /\ env' = e
  /\ domains' = ds
  /\ netMode' = <<>>
  /\ i' = 1
  /\ results' = <<>>
  /\ hist' = <<>>
  /\ attempts' = 0
  /\ looked' = {}
  /\ fetchCount' = 0
  /\ inFlight' = 0
  /\ status' = "resolved"
  /\ returned' = mockDomainAvailability(ds)
  /\ path' = "mock"
  /\ pc' = "done"
  /\ UNCHANGED snapshot
  /\ UNCHANGED otherVars

\* The handler with credentials: enters the registrar path.
CallConfigured(p, e, ds, mode) ==
  /\ pc = "idle"
  /\ HasCredentials(p, e)
  /\ provider' = p
  /\ env' = e
  /\ domains' = ds
  /\ netMode' = mode
  /\ i' = 1
  /\ results' = <<>>
  /\ hist' = <<>>
  /\ attempts' = 0
  /\ looked' = {}
  /\ fetchCount' = 0
  /\ inFlight' = 0
  /\ status' = "pending"
  /\ returned' = <<>>
  /\ path' = "none"
  /\ pc' = IF p = "godaddy" THEN "gd_loop" ELSE "nc_loop"
  /\ UNCHANGED snapshot
  /\ UNCHANGED otherVars

\* The registrar path threw: the handler's catch decides the outcome.
Caught(partial) ==
  /\ status' = HandlerCatch(domains, partial).status
  /\ returned' = HandlerCatch(domains, partial).value
  /\ path' = "fallback"
  /\ pc' = "done"

\* The state between two calls: nothing of a finished call is kept.
Cleared ==
  /\ provider' = "godaddy"
  /\ env' = {}
  /\ domains' = <<>>
  /\ netMode' = <<>>
  /\ i' = 1
  /\ results' = <<>>
  /\ hist' = <<>>
  /\ attempts' = 0
  /\ looked' = {}
  /\ fetchCount' = 0
  /\ inFlight' = 0
  /\ status' = "pending"
  /\ returned' = <<>>
  /\ path' = "none"
  /\ pc' = "idle"

\* The caller has its answer; the next call can start.
Return ==
  /\ pc = "done"
  /\ Cleared
  /\ UNCHANGED snapshot
  /\ UNCHANGED otherVars

\* As Return, keeping one result of a mock answer to compare later answers with.
ReturnRemember(k) ==
  /\ pc = "done"
  /\ path \in { "mock", "fallback" }
  /\ status = "resolved"
  /\ k \in 1..Len(returned)
  /\ snapshot' = << domains[k], returned[k] >>
  /\ Cleared
  /\ UNCHANGED otherVars

(* ----------------------- checkDomainsWithGoDaddy ------------------------ *)

\* `API error: ${response.status}`
ApiErrorMessage(st) ==
  CASE st = 429 -> "API error: 429"
    [] st = 500 -> "API error: 500"
    [] OTHER    -> "API error"

\* The response makes the try block throw: fetch rejected, response.json()
\* rejected, or parseGoDaddyResult read a property of null.
IsThrow(r) == r.kind \in { "null", "invalid", "reject" }

\* error instanceof Error ? error.message : "Unknown error"
ThrownMessage(r) ==
  CASE r.kind = "reject"  -> "fetch failed"
    [] r.kind = "invalid" -> "Unexpected token < in JSON at position 0"
    [] r.kind = "null"    -> "Cannot read properties of null (reading 'available')"
    [] OTHER              -> "Unknown error"

\* A step of the loop body: the results it pushes and where the loop goes on.
Step(push, next) == [push |-> push, next |-> next]

\* A catch that gives the lookup up and lets the error out of the loop.
GdCatch_Rethrow(domain, r) == Step(<<>>, "throw")

\* catch (error) { results.push({domain, ..., errorMessage}) } -- the loop goes on.
GdCatch(domain, r) == Step(<< ErrorResult(domain, ThrownMessage(r)) >>, "gd_loop")

\* No retry at all.
ShouldRetry_Never(r) == FALSE

\* A retry on every non-OK status.
ShouldRetry_AnyStatus(r) == r.kind = "status"

\* if (response.status === 429) { ...wait 1000 ms...; retry once }
ShouldRetry(r) == r.kind = "status" /\ r.status = HTTP_TOO_MANY_REQUESTS

\* The loop body from the first response on (actions.ts:606-638).
GdFirst(domain, r) ==
  IF IsThrow(r) THEN GdCatch(domain, r)
  ELSE IF r.kind = "status"
       THEN IF ShouldRetry(r)
            THEN Step(<<>>, "gd_backoff")
            ELSE Step(<< ErrorResult(domain, ApiErrorMessage(r.status)) >>, "gd_loop")
  ELSE Step(<< parseGoDaddyResult(domain, r) >>, "gd_delay")

\* The retry branch without its `continue`: a successful retry falls through
\* to the push of the error result.
GdRetry_NoContinue(domain, first, r) ==
  IF IsThrow(r) THEN GdCatch(domain, r)
  ELSE IF r.kind = "data"
       THEN Step(<< parseGoDaddyResult(domain, r),
                    ErrorResult(domain, ApiErrorMessage(first.status)) >>, "gd_loop")
  ELSE Step(<< ErrorResult(domain, ApiErrorMessage(first.status)) >>, "gd_loop")

\* The loop body from the retry's response on (actions.ts:619-631): the error
\* result carries the status of the first response.
GdRetry(domain, first, r) ==
  IF IsThrow(r) THEN GdCatch(domain, r)
  ELSE IF r.kind = "data"
       THEN Step(<< parseGoDaddyResult(domain, r) >>, "gd_loop")
  ELSE Step(<< ErrorResult(domain, ApiErrorMessage(first.status)) >>, "gd_loop")

\* The request sent without awaiting its response: the loop moves on at once.
GdAfterIssue_NoAwait(k) == [pc |-> "gd_loop", i |-> k + 1]

\* await fetch(...): the loop is suspended until the response arrives.
GdAfterIssue(k) == [pc |-> "gd_await", i |-> k]

Allowed(r) == netMode = <<>> \/ netMode = << r >>

\* for (const domain of domains) { ... await fetch(...) -- first request
GdIssue ==
  /\ pc = "gd_loop"
  /\ i <= Len(domains)
  /\ hist' = <<>>
  /\ attempts' = 1
  /\ looked' = looked \cup { i }
  /\ fetchCount' = fetchCount + 1
  /\ inFlight' = inFlight + 1
  /\ pc' = GdAfterIssue(i).pc
  /\ i' = GdAfterIssue(i).i
  /\ UNCHANGED << callVars, results, status, returned, path, snapshot >>
  /\ UNCHANGED otherVars

\* The effect of a step of the loop body on the call.
GdApply(step) ==
  IF step.next = "throw"
  THEN /\ Caught(results)
       /\ UNCHANGED << i, results >>
  ELSE /\ results' = results \o step.push
       /\ i' = IF step.next = "gd_backoff" THEN i ELSE i + 1
       /\ pc' = step.next
       /\ UNCHANGED << status, returned, path >>

\* The first response of a lookup arrives.
GdRespond(r) ==
  /\ pc = "gd_await"
  /\ Allowed(r)
  /\ hist' = Append(hist, r)
  /\ inFlight' = inFlight - 1
  /\ GdApply(GdFirst(domains[i], r))
  /\ UNCHANGED << callVars, attempts, looked, fetchCount, snapshot >>
  /\ UNCHANGED otherVars

\* setTimeout(resolve, 1000) elapsed: the retry request is sent.
GdBackoffDone ==
  /\ pc = "gd_backoff"
  /\ attempts' = attempts + 1
  /\ fetchCount' = fetchCount + 1
  /\ inFlight' = inFlight + 1
  /\ pc' = "gd_retry_await"
  /\ UNCHANGED << callVars, i, results, hist, looked, status, returned, path, snapshot >>
  /\ UNCHANGED otherVars

\* The response of the retry arrives.
GdRetryRespond(r) ==
  /\ pc = "gd_retry_await"
  /\ Allowed(r)
  /\ hist' = Append(hist, r)
  /\ inFlight' = inFlight - 1
  /\ GdApply(GdRetry(domains[i], hist[1], r))
  /\ UNCHANGED << callVars, attempts, looked, fetchCount, snapshot >>
  /\ UNCHANGED otherVars

\* setTimeout(resolve, 100) elapsed after a successful lookup.
GdDelayDone ==
  /\ pc = "gd_delay"
  /\ pc' = "gd_loop"
  /\ UNCHANGED << callVars, i, results, hist, attempts, looked, fetchCount, inFlight,
                  status, returned, path, snapshot >>
  /\ UNCHANGED otherVars

\* The request never settles: fetch is called without a signal or a timer,
\* so nothing resumes the loop.
GdHang ==
  /\ pc \in { "gd_await", "gd_retry_await" }
  /\ pc' = "hung"
  /\ UNCHANGED << callVars, i, results, hist, attempts, looked, fetchCount, inFlight,
                  status, returned, path, snapshot >>
  /\ UNCHANGED otherVars

\* return results
GdFinish ==
  /\ pc = "gd_loop"
  /\ i > Len(domains)
  /\ status' = "resolved"
  /\ returned' = results
  /\ path' = "registrar"
  /\ pc' = "done"
  /\ UNCHANGED << callVars, i, results, hist, attempts, looked, fetchCount, inFlight, snapshot >>
  /\ UNCHANGED otherVars

(* ---------------------- checkDomainsWithNamecheap ---------------------- *)

Min(a, b) == IF a < b THEN a ELSE b

\* The sub-batches of at most MAX_DOMAINS_PER_REQUEST domains; a list that is
\* not longer than that is one batch (also the empty list).
Batches(ds) ==
  IF Len(ds) > MAX_DOMAINS_PER_REQUEST
  THEN [b \in 1..((Len(ds) + MAX_DOMAINS_PER_REQUEST - 1) \div MAX_DOMAINS_PER_REQUEST) |->
          SubSeq(ds, (b - 1) * MAX_DOMAINS_PER_REQUEST + 1,
                     Min(b * MAX_DOMAINS_PER_REQUEST, Len(ds)))]
  ELSE << ds >>

\* Index in domains of the first domain of sub-batch b.
BatchStart(b) == (b - 1) * MAX_DOMAINS_PER_REQUEST + 1

\* The attributes of one <DomainCheckResult .../> element.
Element(d, a, p, pr) ==
  [Domain |-> d, Available |-> a, IsPremiumName |-> p, PremiumRegistrationPrice |-> pr]

\* Number.parseFloat on the attribute texts the model uses.
ParseFloat(text) ==
  CASE text = "0"       -> <<0, 0>>
    [] text = "1500.00" -> <<1500, 0>>
    [] OTHER            -> <<"NaN">>

NcAttributes ==
  { << Some("true"),  Some("false"), Undefined >>,
    << Some("false"), Some("false"), Undefined >>,
    << Some("true"),  Some("true"),  Some("1500.00") >>,
    << Some("true"),  Some("false"), Some("0") >> }

\* What one fetch of the Namecheap endpoint can do.  kind:
\*   "xml"    HTTP 200 with the elements and the <Error> text (if any) of the body
\*   "status" a non-OK HTTP status
\*   "reject" fetch rejects
NcResponse(kind, elements, error) == [kind |-> kind, elements |-> elements, error |-> error]

\* One element per domain of the batch, in order, all with attributes a.
NcFaithful(batch, a) == [k \in 1..Len(batch) |-> Element(Some(batch[k]), a[1], a[2], a[3])]

\* Bodies that do not list the batch as it was sent: the last domain missing,
\* the domains in reverse order, the first domain twice, the domains in upper
\* case.
NcUnfaithful(batch) ==
  IF batch = <<>> THEN {}
  ELSE { NcResponse("xml",
                    NcFaithful(listed, << Some("true"), Some("false"), Undefined >>),
                    FALSE) :
           listed \in { SubSeq(batch, 1, Len(batch) - 1),
                        [k \in 1..Len(batch) |-> batch[Len(batch) + 1 - k]],
                        << batch[1] >> \o batch,
                        [k \in 1..Len(batch) |->
                           [c \in 1..Len(batch[k]) |-> ToUpper(batch[k][c])]] } }

NcResponses(batch) ==
  { NcResponse("xml", NcFaithful(batch, a), FALSE) : a \in NcAttributes }
  \cup NcUnfaithful(batch)
  \cup { NcResponse("xml", <<>>, TRUE),
         NcResponse("xml", <<>>, FALSE),
         NcResponse("status", <<>>, FALSE),
         NcResponse("reject", <<>>, FALSE) }

\* The elements that carry a Domain attribute, as results.
ParsedElements(elements) ==
  LET kept == SelectSeq(elements, LAMBDA el : el.Domain # Undefined)
  IN  [k \in 1..Len(kept) |->
         DomainCheckResult(kept[k].Domain[1],
                           kept[k].Available = Some("true"),
                           kept[k].IsPremiumName = Some("true"),
                           IF kept[k].PremiumRegistrationPrice # Undefined
                           THEN ParseFloat(kept[k].PremiumRegistrationPrice[1])
                           ELSE Undefined,
                           Undefined)]

\* checkDomainBatch + parseNamecheapResponse: [throws, value].
checkDomainBatch(batch, resp) ==
  IF resp.kind # "xml" THEN [throws |-> TRUE, value |-> <<>>]
  ELSE LET parsed == ParsedElements(resp.elements)
       IN  IF Len(parsed) = 0
           THEN IF resp.error
                THEN [throws |-> TRUE, value |-> <<>>]
                ELSE [throws |-> FALSE,
                      value  |-> [k \in 1..Len(batch) |->
                                    ErrorResult(batch[k], "Failed to parse API response")]]
           ELSE [throws |-> FALSE, value |-> parsed]

\* The request of sub-batch i is sent.
NcIssue ==
  /\ pc = "nc_loop"
  /\ i <= Len(Batches(domains))
  /\ attempts' = 1
  /\ looked' = looked \cup { k \in 1..Len(domains) :
                               /\ k >= BatchStart(i)
                               /\ k < BatchStart(i) + Len(Batches(domains)[i]) }
  /\ fetchCount' = fetchCount + 1
  /\ inFlight' = inFlight + 1
  /\ pc' = "nc_await"
  /\ UNCHANGED << callVars, i, results, hist, status, returned, path, snapshot >>
  /\ UNCHANGED otherVars

\* The response of sub-batch i arrives.
NcRespond(resp) ==
  /\ pc = "nc_await"
  /\ inFlight' = inFlight - 1
  /\ LET out == checkDomainBatch(Batches(domains)[i], resp)
     IN  IF out.throws
         THEN /\ Caught(results)
              /\ UNCHANGED << i, results >>
         ELSE /\ results' = results \o out.value
              /\ i' = i + 1
              /\ pc' = "nc_loop"
              /\ UNCHANGED << status, returned, path >>
  /\ UNCHANGED << callVars, hist, attempts, looked, fetchCount, snapshot >>
  /\ UNCHANGED otherVars

\* The request never settles.
NcHang ==
  /\ pc = "nc_await"
  /\ pc' = "hung"
  /\ UNCHANGED << callVars, i, results, hist, attempts, looked, fetchCount, inFlight,
                  status, returned, path, snapshot >>
  /\ UNCHANGED otherVars

\* return results / return checkDomainBatch(domains, config)
NcFinish ==
  /\ pc = "nc_loop"
  /\ i > Len(Batches(domains))
  /\ status' = "resolved"
  /\ returned' = results
  /\ path' = "registrar"
  /\ pc' = "done"
  /\ UNCHANGED << callVars, i, results, hist, attempts, looked, fetchCount, inFlight, snapshot >>
  /\ UNCHANGED otherVars

(* --------------------------- specification ----------------------------- *)

Modes(p, ds) ==
  IF p = "godaddy" /\ Len(ds) > MaxDomains
  THEN { << r >> : r \in GdUniformResponses }
  ELSE { <<>> }

Next ==
  \/ \E p \in Providers, ds \in DomainLists :
        \E e \in SUBSET CredentialsOf(p) : CallUnconfigured(p, e, ds)
  \/ \E p \in Providers, ds \in DomainLists :
        \E e \in SUBSET CredentialsOf(p), mode \in Modes(p, ds) : CallConfigured(p, e, ds, mode)
  \/ GdIssue
  \/ \E r \in GdResponses : GdRespond(r)
  \/ GdBackoffDone
  \/ \E r \in GdResponses : GdRetryRespond(r)
  \/ GdDelayDone
  \/ GdHang
  \/ GdFinish
  \/ NcIssue
  \/ \E resp \in NcResponses(Batches(domains)[Min(i, Len(Batches(domains)))]) : NcRespond(resp)
  \/ NcHang
  \/ NcFinish
  \/ Return
  \/ \E k \in 1..Len(returned) : ReturnRemember(k)

Spec == Init /\ [][Next]_vars

(* ------------------- parseGoDaddyResult on its own --------------------- *)

\* Prices within MaxDelta micro-units of the premium threshold are all tried.
MaxDelta == 2

ParsePrices ==
  { Undefined, <<0>>, <<-5>>, <<11990000>>, <<2000000000>> }
  \cup { << PREMIUM_THRESHOLD * MICROS_PER_UNIT + d >> : d \in (0 - MaxDelta)..MaxDelta }

\* "string": a value of available that is not a boolean.
ParseData ==
  { Response("data", 200, a, p) : a \in { "true", "false", "absent", "string" }, p \in ParsePrices }

InitParse ==
  /\ provider = "godaddy"
  /\ env = {}
  /\ domains = <<>>
  /\ pc = "parse_idle"
  /\ i = 1
  /\ results = <<>>
  /\ hist = <<>>
  /\ attempts = 0
  /\ looked = {}
  /\ fetchCount = 0
  /\ inFlight = 0
  /\ netMode = <<>>
  /\ status = "pending"
  /\ returned = <<>>
  /\ path = "none"
  /\ snapshot = <<>>
  /\ ToolsIdle

\* results = [parseGoDaddyResult(domain, data)]
ParseCall(d, data) ==
  /\ pc = "parse_idle"
  /\ domains' = << d >>
  /\ hist' = << data >>
  /\ results' = << parseGoDaddyResult(d, data) >>
  /\ pc' = "parsed"
  /\ UNCHANGED << provider, env, i, attempts, looked, fetchCount, inFlight, netMode,
                  status, returned, path, snapshot >>
  /\ UNCHANGED otherVars

ParseReturn ==
  /\ pc = "parsed"
  /\ domains' = <<>>
  /\ hist' = <<>>
  /\ results' = <<>>
  /\ pc' = "parse_idle"
  /\ UNCHANGED << provider, env, i, attempts, looked, fetchCount, inFlight, netMode,
                  status, returned, path, snapshot >>
  /\ UNCHANGED otherVars

NextParse ==
  \/ \E d \in PoolSet, data \in ParseData : ParseCall(d, data)
  \/ ParseReturn

SpecParse == InitParse /\ [][NextParse]_vars

(* ------------------- mockDomainAvailability on its own ------------------ *)

\* Labels are a prefix followed by up to MaxBody copies of one character.
MaxBody == 9

Repeat(c, n) == [k \in 1..n |-> c]

MockLabelPrefixes == CommonPrefixes \cup { <<>>, <<"u","s","e">> }

MockLabels ==
  { p \o Repeat(c, n) : p \in MockLabelPrefixes, c \in { "a", "k", "z", "7" }, n \in 0..MaxBody }

\* No dot at all, one dot, and more than one dot.
MockTlds ==
  { <<>>,
    <<".","c","o","m">>,
    <<".","i","o">>,
    <<".","x",".","c","o","m">>,
    <<".","c","o",".","u","k">> }

MockDomains == { l \o t : l \in MockLabels, t \in MockTlds }

InitMock ==
  /\ provider = "godaddy"
  /\ env = {}
  /\ domains = <<>>
  /\ pc = "mock_idle"
  /\ i = 1
  /\ results = <<>>
  /\ hist = <<>>
  /\ attempts = 0
  /\ looked = {}
  /\ fetchCount = 0
  /\ inFlight = 0
  /\ netMode = <<>>
  /\ status = "pending"
  /\ returned = <<>>
  /\ path = "none"
  /\ snapshot = <<>>
  /\ ToolsIdle

\* returned = mockDomainAvailability([d])
MockCall(d) ==
  /\ pc = "mock_idle"
  /\ domains' = << d >>
  /\ returned' = mockDomainAvailability(<< d >>)
  /\ path' = "mock"
  /\ pc' = "mock_done"
  /\ UNCHANGED << provider, env, i, results, hist, attempts, looked, fetchCount, inFlight,
                  netMode, status, snapshot >>
  /\ UNCHANGED otherVars

MockReturn ==
  /\ pc = "mock_done"
  /\ domains' = <<>>
  /\ returned' = <<>>
  /\ path' = "none"
  /\ pc' = "mock_idle"
  /\ UNCHANGED << provider, env, i, results, hist, attempts, looked, fetchCount, inFlight,
                  netMode, status, snapshot >>
  /\ UNCHANGED otherVars

NextMock ==
  \/ \E d \in MockDomains : MockCall(d)
  \/ MockReturn

SpecMock == InitMock /\ [][NextMock]_vars

(* ------------------------- generateDomainNames ------------------------- *)

\* Keyword lists have up to MaxKeywords raw keywords.
MaxKeywords == 2

\* part_003:20  options?.maxResults ?? 20
DEFAULT_MAX_RESULTS == 20

\* agent/index.ts:75  slice(0, 8)
AGENT_MAX_SUGGESTIONS == 8

\* part_003:4
PREFIXES ==
  << <<"g","e","t">>,
     <<"m","y">>,
     <<"u","s","e">>,
     <<"t","r","y">>,
     <<"g","o">>,
     <<"h","e","y">>,
     <<"h","e","l","l","o">>,
     <<"t","h","e">>,
     <<"j","u","s","t">>,
     <<"n","o","w">>,
     <<"b","e">>,
     <<"d","o">> >>

\* part_003:5
SUFFIXES ==
  << <<"a","p","p">>,
     <<"i","o">>,
     <<"h","q">>,
     <<"h","u","b">>,
     <<"l","a","b">>,
     <<"b","a","s","e">>,
     <<"l","y">>,
     <<"i","f","y">>,
     <<"e","r">>,
     <<"s","t","e","r">> >>

\* part_003:6, agent/index.ts:44
TLDS ==
  << <<".","c","o","m">>,
     <<".","i","o">>,
     <<".","c","o">>,
     <<".","d","e","v">>,
     <<".","a","p","p">>,
     <<".","a","i">> >>

\* agent/index.ts:45
AGENT_PREFIXES ==
  << <<"g","e","t">>,
     <<"m","y">>,
     <<"u","s","e">>,
     <<"t","r","y">>,
     <<"g","o">>,
     <<"h","e","y">> >>

\* agent/index.ts:46
AGENT_SUFFIXES ==
  << <<"a","p","p">>,
     <<"h","q">>,
     <<"h","u","b">>,
     <<"l","y">>,
     <<"i","f","y">> >>

DOT_COM == <<".","c","o","m">>

DOT_IO == <<".","i","o">>

\* String.prototype.toLowerCase on one character.
ToLower(c) ==
  IF \E k \in 1..Len(UpperCase) : UpperCase[k] = c
  THEN LowerCase[CHOOSE k \in 1..Len(UpperCase) : UpperCase[k] = c]
  ELSE c

\* k.toLowerCase().replace(/[^a-z0-9]/g, "")
NormalizeKeyword(k) ==
  SelectSeq([j \in 1..Len(k) |-> ToLower(k[j])],
            LAMBDA c : IsLower(c) \/ (\E d \in 1..Len(Digits) : Digits[d] = c))

\* keywords.map(...).filter((k) => k.length > 0)
CleanKeywords(kws) ==
  SelectSeq([j \in 1..Len(kws) |-> NormalizeKeyword(kws[j])], LAMBDA k : Len(k) > 0)

RECURSIVE Flatten(_)
\* The elements of a sequence of sequences, in order.
Flatten(ss) == IF ss = <<>> THEN <<>> ELSE Head(ss) \o Flatten(Tail(ss))

\* An array instead of a Set: every add() is kept.
SetAddAll_KeepAll(xs) == xs

\* The Set built by calling Set.prototype.add on each element of xs in turn, in
\* insertion order: an element is kept where it was first added.
SetAddAll(xs) ==
  LET first == SelectSeq([k \in 1..Len(xs) |-> k],
                         LAMBDA k : \A j \in 1..(k - 1) : xs[j] # xs[k])
  IN  [n \in 1..Len(first) |-> xs[first[n]]]

Max(a, b) == IF a > b THEN a ELSE b

\* Array.prototype.slice(0, end); a negative end counts from the end.
Slice(s, end) ==
  SubSeq(s, 1, IF end < 0 THEN Max(Len(s) + end, 0) ELSE Min(end, Len(s)))

\* [k + t for t of tlds]
WithTlds(k, tlds) == [t \in 1..Len(tlds) |-> k \o tlds[t]]

\* The add() calls of the direct, prefix and suffix steps for one keyword, in
\* order (part_003:30-46).
AffixCandidates(keyword, tlds) ==
  WithTlds(keyword, tlds)
    \o Flatten([p \in 1..Len(PREFIXES) |-> WithTlds(PREFIXES[p] \o keyword, tlds)])
    \o Flatten([s \in 1..Len(SUFFIXES) |-> WithTlds(keyword \o SUFFIXES[s], tlds)])

\* The add() calls of the compound step for one keyword, in order (part_003:49-55).
CompoundCandidates(keyword, cleanKeywords, tlds) ==
  Flatten([o \in 1..Len(cleanKeywords) |->
             IF cleanKeywords[o] # keyword
             THEN WithTlds(keyword \o cleanKeywords[o], tlds)
             ELSE <<>>])

\* The compound step run once after the keyword loop instead of inside it.
EmittedCandidates_CompoundsLast(cleanKeywords, tlds) ==
  Flatten([j \in 1..Len(cleanKeywords) |-> AffixCandidates(cleanKeywords[j], tlds)])
    \o Flatten([j \in 1..Len(cleanKeywords) |->
                  CompoundCandidates(cleanKeywords[j], cleanKeywords, tlds)])

\* All the add() calls of the keyword loop, in order (part_003:28-57): the
\* compound step is inside the loop body.
EmittedCandidates(cleanKeywords, tlds) ==
  Flatten([j \in 1..Len(cleanKeywords) |->
             AffixCandidates(cleanKeywords[j], tlds)
               \o CompoundCandidates(cleanKeywords[j], cleanKeywords, tlds)])

\* options?.tlds ?? TLDS
ActiveTlds(tldsOpt) == IF tldsOpt = Undefined THEN TLDS ELSE tldsOpt[1]

\* A generator that ignores options.tlds.
Suggestions_DefaultTlds(kws, tldsOpt) ==
  SetAddAll(EmittedCandidates(CleanKeywords(kws), TLDS))

\* The suggestions Set of generateDomainNames before the final slice.
Suggestions(kws, tldsOpt) ==
  SetAddAll(EmittedCandidates(CleanKeywords(kws), ActiveTlds(tldsOpt)))

\* The add() calls of the agent tool's handler, in order (agent/index.ts:53-73).
AgentEmittedCandidates(cleanKeywords, tlds) ==
  Flatten([j \in 1..Len(Slice(cleanKeywords, 3)) |->
             LET keyword == cleanKeywords[j]
             IN  WithTlds(keyword, Slice(tlds, 4))
                   \o Flatten([p \in 1..Len(Slice(AGENT_PREFIXES, 3)) |->
                                 << AGENT_PREFIXES[p] \o keyword \o DOT_COM,
                                    AGENT_PREFIXES[p] \o keyword \o DOT_IO >>])
                   \o [s \in 1..Len(Slice(AGENT_SUFFIXES, 2)) |->
                         keyword \o AGENT_SUFFIXES[s] \o DOT_COM]])
    \o (IF Len(cleanKeywords) >= 2
        THEN << cleanKeywords[1] \o cleanKeywords[2] \o DOT_COM,
                cleanKeywords[1] \o cleanKeywords[2] \o DOT_IO >>
        ELSE <<>>)

\* The suggestions Set of the agent tool before the final slice.
AgentSuggestions(kws, tldsOpt) ==
  SetAddAll(AgentEmittedCandidates(CleanKeywords(kws), ActiveTlds(tldsOpt)))

\* Raw keywords: plain, with an upper-case letter and punctuation, nothing but
\* punctuation, and one that is also a prefix of the library.
RawKeywords ==
  { <<"c","a","t">>, <<"A","p","p","!">>, <<"!","!">>, <<"g","e","t">> }

\* options.tlds: absent, two of the defaults, empty, one non-default tld twice.
TldOptions ==
  { Undefined,
    Some(<< DOT_COM, DOT_IO >>),
    Some(<<>>),
    Some(<< <<".","x","y","z">>, <<".","x","y","z">> >>) }

\* options.maxResults: absent or an integer.
MaxResultsOptions == { Undefined, Some(-1), Some(0), Some(1), Some(7), Some(500) }

InitGen ==
  /\ provider = "godaddy"
  /\ env = {}
  /\ domains = <<>>
  /\ pc = "gen_idle"
  /\ i = 1
  /\ results = <<>>
  /\ hist = <<>>
  /\ attempts = 0
  /\ looked = {}
  /\ fetchCount = 0
  /\ inFlight = 0
  /\ netMode = <<>>
  /\ status = "pending"
  /\ returned = <<>>
  /\ path = "none"
  /\ snapshot = <<>>
  /\ ToolsIdle

checkVars ==
  << provider, env, domains, i, results, hist, attempts, looked, fetchCount, inFlight,
     netMode, status, returned, path, snapshot >>

\* generateDomainNames(kws, opts) up to the end of the keyword loop.
GenerateBuild(kws, opts) ==
  /\ pc = "gen_idle"
  /\ keywords' = kws
  /\ options' = opts
  /\ suggestions' = Suggestions(kws, opts.tlds)
  /\ pc' = "gen_built"
  /\ UNCHANGED << checkVars, candidates, filePath, requests, commits, modLog, appVars >>

\* options?.maxResults ?? 20
MaxResultsOf(opts) ==
  IF opts.maxResults = Undefined THEN DEFAULT_MAX_RESULTS ELSE opts.maxResults[1]

\* return Array.from(suggestions).slice(0, maxResults)
GenerateSlice ==
  /\ pc = "gen_built"
  /\ candidates' = Slice(suggestions, MaxResultsOf(options))
  /\ pc' = "gen_done"
  /\ UNCHANGED << checkVars, keywords, options, suggestions, filePath, requests, commits, modLog, appVars >>

\* The agent tool's handler up to the compound step.
AgentBuild(kws, tldsOpt) ==
  /\ pc = "gen_idle"
  /\ keywords' = kws
  /\ options' = [tlds |-> tldsOpt, maxResults |-> Undefined]
  /\ suggestions' = AgentSuggestions(kws, tldsOpt)
  /\ pc' = "agent_built"
  /\ UNCHANGED << checkVars, candidates, filePath, requests, commits, modLog, appVars >>

\* return Array.from(suggestions).slice(0, 8)
AgentSlice ==
  /\ pc = "agent_built"
  /\ candidates' = Slice(suggestions, AGENT_MAX_SUGGESTIONS)
  /\ pc' = "agent_done"
  /\ UNCHANGED << checkVars, keywords, options, suggestions, filePath, requests, commits, modLog, appVars >>

\* The caller has its list; the next call can start.
GenerateReturn ==
  /\ pc \in { "gen_done", "agent_done" }
  /\ keywords' = <<>>
  /\ options' = [tlds |-> <<>>, maxResults |-> <<>>]
  /\ suggestions' = <<>>
  /\ candidates' = <<>>
  /\ pc' = "gen_idle"
  /\ UNCHANGED << checkVars, filePath, requests, commits, modLog, appVars >>

NextGen ==
  \/ \E kws \in SeqsUpTo(RawKeywords, MaxKeywords),
        opts \in [tlds : TldOptions, maxResults : MaxResultsOptions] : GenerateBuild(kws, opts)
  \/ GenerateSlice
  \/ \E kws \in SeqsUpTo(RawKeywords, MaxKeywords), tldsOpt \in TldOptions :
        AgentBuild(kws, tldsOpt)
  \/ AgentSlice
  \/ GenerateReturn

SpecGen == InitGen /\ [][NextGen]_vars

(* --------------------------- modifySourceFile --------------------------- *)

\* A file path is a sequence of pieces of text, cut so that every forbidden
\* prefix a path begins with is a whole number of pieces; startsWith and ===
\* on the text are then StartsWith and = on the pieces.

\* actions.ts:949-956, selfModifyTools.ts:5-14  components and styles
MODIFIABLE_ALLOWED ==
  << << "src/components/ui/Button.tsx" >>,
     << "src/components/ui/Card.tsx" >>,
     << "src/components/ui/Input.tsx" >>,
     << "src/components/chat/MessageBubble.tsx" >>,
     << "src/components/domains/DomainCard.tsx" >>,
     << "src/styles.css" >> >>

\* actions.ts:958-964  forbidden
MODIFIABLE_FORBIDDEN ==
  << << "convex/schema.ts" >>,
     << "convex/auth.ts" >>,
     << "convex/agent", "/" >>,
     << "src/lib/auth.ts" >>,
     << ".env" >> >>

\* selfModifyTools.ts:16-21  forbidden; glob is TRUE for an entry ending in /**,
\* whose path is then the entry with /** removed.
TOOLS_FORBIDDEN ==
  << [path |-> << "convex/schema.ts" >>, glob |-> FALSE],
     [path |-> << "convex/auth.ts" >>,   glob |-> FALSE],
     [path |-> << "convex/agent" >>,     glob |-> TRUE],
     [path |-> << "src/lib/auth.ts" >>,  glob |-> FALSE] >>

\* A check that only looks at the forbidden list.
isFileModifiable_ForbiddenOnly(fp) ==
  ~ \E f \in 1..Len(MODIFIABLE_FORBIDDEN) :
       StartsWith(fp, MODIFIABLE_FORBIDDEN[f]) \/ fp = MODIFIABLE_FORBIDDEN[f]

\* actions.ts:968-979
isFileModifiable(fp) ==
  IF \E f \in 1..Len(MODIFIABLE_FORBIDDEN) :
        StartsWith(fp, MODIFIABLE_FORBIDDEN[f]) \/ fp = MODIFIABLE_FORBIDDEN[f]
  THEN FALSE
  ELSE \E a \in 1..Len(MODIFIABLE_ALLOWED) : MODIFIABLE_ALLOWED[a] = fp

\* selfModifyTools.ts:73-90
toolsIsFileModifiable(fp) ==
  IF \E f \in 1..Len(TOOLS_FORBIDDEN) :
        IF TOOLS_FORBIDDEN[f].glob
        THEN StartsWith(fp, TOOLS_FORBIDDEN[f].path)
        ELSE fp = TOOLS_FORBIDDEN[f].path
  THEN FALSE
  ELSE \E a \in 1..Len(MODIFIABLE_ALLOWED) : MODIFIABLE_ALLOWED[a] = fp

GitHubEnv == { "GITHUB_TOKEN", "GITHUB_REPO_OWNER", "GITHUB_REPO_NAME" }

\* The paths the action is called with: the listed ones, files under a
\* forbidden prefix, and paths that differ from a whitelisted one by a piece.
FilePaths ==
  { MODIFIABLE_ALLOWED[a] : a \in 1..Len(MODIFIABLE_ALLOWED) }
  \cup { MODIFIABLE_FORBIDDEN[f] : f \in 1..Len(MODIFIABLE_FORBIDDEN) }
  \cup { << "convex/agent", "/", "index.ts" >>,
         << "convex/agent", "x.ts" >>,
         << ".env", ".local" >>,
         << "convex/schema.ts", ".bak" >>,
         << "src/styles.css", ".bak" >>,
         << "./", "src/styles.css" >>,
         << "src/components/ui/", "../../../convex/schema.ts" >>,
         << "src/components/ui/Other.tsx" >>,
         << "SRC/STYLES.CSS" >>,
         <<>> }

ModResult(success, error) == [success |-> success, error |-> error]

\* What the GET of the current file can do: "ok" (200 with a sha), "notfound"
\* (a non-OK status: the file is created), "badjson" (200, json() throws),
\* "reject" (fetch rejects).
GetOutcomes == { "ok", "notfound", "badjson", "reject" }

\* What the PUT can do.  The commit is made in "ok", "ok_badjson" (json() of
\* the OK response throws) and "lost" (the response never arrives and fetch
\* rejects); it is not made in "notok", "notok_badjson" and "reject".
PutOutcomes == { "ok", "ok_badjson", "lost", "notok", "notok_badjson", "reject" }

InitModify ==
  /\ provider = "godaddy"
  /\ env = {}
  /\ domains = <<>>
  /\ pc = "mod_idle"
  /\ i = 1
  /\ results = <<>>
  /\ hist = <<>>
  /\ attempts = 0
  /\ looked = {}
  /\ fetchCount = 0
  /\ inFlight = 0
  /\ netMode = <<>>
  /\ status = "pending"
  /\ returned = <<>>
  /\ path = "none"
  /\ snapshot = <<>>
  /\ ToolsIdle

modFrame ==
  << provider, domains, i, results, hist, attempts, looked, fetchCount, inFlight, netMode,
     path, snapshot, keywords, options, suggestions, candidates, call, db, chat >>

\* return { success: false, error }
ModifyFails(error) ==
  /\ status' = "resolved"
  /\ returned' = << ModResult(FALSE, error) >>
  /\ pc' = "mod_done"

\* modifySourceFile({filePath: fp, ...}) with e set in process.env, up to the
\* first await.
ModifyCall(fp, e) ==
  /\ pc = "mod_idle"
  /\ filePath' = fp
  /\ env' = e
  /\ IF ~isFileModifiable(fp)
     THEN /\ ModifyFails("not in the modifiable whitelist")
          /\ UNCHANGED requests
     ELSE IF e # GitHubEnv
     THEN /\ ModifyFails("GitHub API not configured")
          /\ UNCHANGED requests
     ELSE /\ requests' = << "GET" >>
          /\ pc' = "mod_get"
          /\ UNCHANGED << status, returned >>
  /\ UNCHANGED << modFrame, commits, modLog >>

\* The GET settles; unless it threw, the PUT is sent.
ModifyGetRespond(kind) ==
  /\ pc = "mod_get"
  /\ IF kind \in { "badjson", "reject" }
     THEN /\ ModifyFails("thrown")
          /\ UNCHANGED requests
     ELSE /\ requests' = Append(requests, "PUT")
          /\ pc' = "mod_put"
          /\ UNCHANGED << status, returned >>
  /\ UNCHANGED << modFrame, env, filePath, commits, modLog >>

\* The PUT settles.
ModifyPutRespond(kind) ==
  /\ pc = "mod_put"
  /\ commits' = IF kind \in { "ok", "ok_badjson", "lost" } THEN Append(commits, filePath)
                ELSE commits
  /\ IF kind = "ok"
     THEN /\ pc' = "mod_log"
          /\ UNCHANGED << status, returned >>
     ELSE ModifyFails(IF kind = "notok" THEN "GitHub API error" ELSE "thrown")
  /\ UNCHANGED << modFrame, env, filePath, requests, modLog >>

\* ctx.runMutation(api.modifications.log, ...) settles; logged is FALSE when it
\* throws.
ModifyLogged(logged) ==
  /\ pc = "mod_log"
  /\ IF logged
     THEN /\ modLog' = Append(modLog, filePath)
          /\ status' = "resolved"
          /\ returned' = << ModResult(TRUE, "") >>
          /\ pc' = "mod_done"
     ELSE /\ ModifyFails("thrown")
          /\ UNCHANGED modLog
  /\ UNCHANGED << modFrame, env, filePath, requests, commits >>

\* The caller has its answer; the next call can start.
ModifyReturn ==
  /\ pc = "mod_done"
  /\ env' = {}
  /\ filePath' = <<>>
  /\ requests' = <<>>
  /\ commits' = <<>>
  /\ modLog' = <<>>
  /\ status' = "pending"
  /\ returned' = <<>>
  /\ pc' = "mod_idle"
  /\ UNCHANGED modFrame

NextModify ==
  \/ \E fp \in FilePaths, e \in SUBSET GitHubEnv : ModifyCall(fp, e)
  \/ \E kind \in GetOutcomes : ModifyGetRespond(kind)
  \/ \E kind \in PutOutcomes : ModifyPutRespond(kind)
  \/ \E logged \in BOOLEAN : ModifyLogged(logged)
  \/ ModifyReturn

SpecModify == InitModify /\ [][NextModify]_vars

(* ----------------------- the callers of checkDomains -------------------- *)

\* Words per user message.
MaxWords == 2

\* actions.ts:941
MAX_SUGGESTIONS == 12

\* actions.ts:829
GATEWAY_MAX_SUGGESTIONS == 15

\* actions.ts:904
STOP_WORDS ==
  { <<"t","h","e">>, <<"a","n","d">>, <<"f","o","r">>, <<"a","p","p">>,
    <<"w","i","t","h">>, <<"t","h","a","t">>, <<"t","h","i","s">>,
    <<"h","a","v","e">>, <<"f","r","o","m">> }

\* actions.ts:907
SUGGESTION_PREFIXES ==
  << <<"g","e","t">>, <<"t","r","y">>, <<"u","s","e">>, <<"g","o">>, <<"h","e","y">>,
     <<"m","y">> >>

\* actions.ts:908
SUGGESTION_SUFFIXES ==
  << <<"a","p","p">>, <<"h","q">>, <<"h","u","b">>, <<"i","o">>, <<"l","y">>,
     <<"i","f","y">> >>

\* actions.ts:909
SUGGESTION_TLDS ==
  << DOT_COM, DOT_IO, <<".","c","o">>, <<".","d","e","v">>, <<".","a","p","p">>,
     <<".","a","i">> >>

\* projectIdea.toLowerCase()
ToLowerCase(s) == [k \in 1..Len(s) |-> ToLower(s[k])]

RECURSIVE SplitWhitespace(_)
\* s.split(/\s+/): the pieces between maximal runs of blanks; a blank at either
\* end leaves an empty piece there.
SplitWhitespace(s) ==
  LET blanks == { k \in 1..Len(s) : s[k] = " " }
  IN  IF blanks = {} THEN << s >>
      ELSE LET first == CHOOSE k \in blanks : \A j \in blanks : k <= j
               rest  == { k \in (first + 1)..Len(s) : s[k] # " " }
               next  == IF rest = {} THEN Len(s) + 1
                        ELSE CHOOSE k \in rest : \A j \in rest : k <= j
           IN  << SubSeq(s, 1, first - 1) >> \o SplitWhitespace(SubSeq(s, next, Len(s)))

\* words.filter((w) => w.length > 3 && ![...].includes(w))
SuggestionKeywords(projectIdea) ==
  SelectSeq(SplitWhitespace(ToLowerCase(projectIdea)),
            LAMBDA w : Len(w) > 3 /\ w \notin STOP_WORDS)

\* The add() calls of generateDomainSuggestions, in order (actions.ts:913-939).
SuggestionAdds(kw) ==
  Flatten([j \in 1..Len(Slice(kw, 3)) |-> WithTlds(kw[j], Slice(SUGGESTION_TLDS, 3))])
    \o Flatten([j \in 1..Len(Slice(kw, 2)) |->
                  Flatten([p \in 1..Len(Slice(SUGGESTION_PREFIXES, 2)) |->
                             << SUGGESTION_PREFIXES[p] \o kw[j] \o DOT_COM,
                                SUGGESTION_PREFIXES[p] \o kw[j] \o DOT_IO >>])])
    \o Flatten([j \in 1..Len(Slice(kw, 2)) |->
                  [s \in 1..Len(Slice(SUGGESTION_SUFFIXES, 2)) |->
                     kw[j] \o SUGGESTION_SUFFIXES[s] \o DOT_COM]])
    \o (IF Len(kw) >= 2
        THEN << kw[1] \o kw[2] \o DOT_COM, kw[1] \o kw[2] \o DOT_IO >>
        ELSE <<>>)

\* return [...suggestions].slice(0, 12)
generateDomainSuggestions(projectIdea) ==
  Slice(SetAddAll(SuggestionAdds(SuggestionKeywords(projectIdea))), MAX_SUGGESTIONS)

\* What the gateway call can end in: "failed" (fetch rejects, a non-OK status
\* or json() throws), "unparsable" (the content is not JSON), "parsed" (JSON
\* whose suggestions field is absent or not an array: <<>>, or an array: <<list>>).
GatewayReply(kind, list) == [kind |-> kind, suggestions |-> list]

GatewayReplies ==
  { GatewayReply("failed", Undefined), GatewayReply("unparsable", Undefined),
    GatewayReply("parsed", Undefined) }
    \cup { GatewayReply("parsed", Some(LongList(n))) :
             n \in { 0, 8, 9, GATEWAY_MAX_SUGGESTIONS, GATEWAY_MAX_SUGGESTIONS + 1 } }

\* The suggestions field of what generateWithVercelAIGateway resolves with.
generateWithVercelAIGateway(projectIdea, reply) ==
  IF reply.kind = "parsed" /\ reply.suggestions # Undefined
  THEN Slice(reply.suggestions[1], GATEWAY_MAX_SUGGESTIONS)
  ELSE generateDomainSuggestions(projectIdea)

\* Words of a user message: two keywords (one with an upper-case letter), a
\* stop word of four letters and one too short to count.
IdeaWords ==
  { <<"c","a","t","s">>, <<"S","h","o","p">>, <<"t","h","a","t">>, <<"a","p","p">> }

RECURSIVE JoinWords(_, _)
JoinWords(ws, sep) ==
  IF ws = <<>> THEN <<>>
  ELSE IF Len(ws) = 1 THEN ws[1]
  ELSE ws[1] \o sep \o JoinWords(Tail(ws), sep)

\* User messages: up to MaxWords words separated by one blank or by two.
UserMessages ==
  { JoinWords(ws, sep) : ws \in SeqsUpTo(IdeaWords, MaxWords),
                         sep \in { <<" ">>, <<" "," ">> } }

\* The domains argument the model may hand to the agent's tool.
ToolDomainLists == DomainLists \cup { LongList(8), LongList(9) }

InitCallers ==
  /\ provider = "godaddy"
  /\ env = {}
  /\ domains = <<>>
  /\ pc = "caller_idle"
  /\ i = 1
  /\ results = <<>>
  /\ hist = <<>>
  /\ attempts = 0
  /\ looked = {}
  /\ fetchCount = 0
  /\ inFlight = 0
  /\ netMode = <<>>
  /\ status = "pending"
  /\ returned = <<>>
  /\ path = "none"
  /\ snapshot = <<>>
  /\ ToolsIdle

callerFrame ==
  << provider, env, i, results, hist, attempts, looked, fetchCount, inFlight, netMode,
     status, returned, path, snapshot, keywords, options, suggestions, candidates,
     filePath, requests, commits, modLog, db, chat >>

\* The agent's checkDomainAvailability tool: args.domains goes to checkDomains
\* as it is.
ToolCheckDomains(ds) ==
  /\ pc = "caller_idle"
  /\ call' = [op |-> "checkDomainAvailability", args |-> ds]
  /\ domains' = ds
  /\ pc' = "caller_passed"
  /\ UNCHANGED callerFrame

\* generateAIResponse up to its call of checkDomains; keyed tells whether
\* VERCEL_AI_GATEWAY_KEY is set, reply is what the gateway then does.
GenerateAIResponse(userMessage, keyed, reply) ==
  /\ pc = "caller_idle"
  /\ call' = [op |-> "generateAIResponse", args |-> userMessage, keyed |-> keyed]
  /\ domains' = IF keyed THEN generateWithVercelAIGateway(userMessage, reply)
                ELSE generateDomainSuggestions(userMessage)
  /\ pc' = "caller_passed"
  /\ UNCHANGED callerFrame

\* checkDomains has answered; the next request can start.
CallerReturn ==
  /\ pc = "caller_passed"
  /\ call' = NoCall
  /\ domains' = <<>>
  /\ pc' = "caller_idle"
  /\ UNCHANGED callerFrame

NextCallers ==
  \/ \E ds \in ToolDomainLists : ToolCheckDomains(ds)
  \/ \E userMessage \in UserMessages, keyed \in BOOLEAN, reply \in GatewayReplies :
        GenerateAIResponse(userMessage, keyed, reply)
  \/ CallerReturn

SpecCallers == InitCallers /\ [][NextCallers]_vars

(* ------------------------- savedDomains mutations ----------------------- *)

\* A Convex mutation is a serializable transaction: its reads and writes take
\* place at one instant, so a mutation is one step and an interleaving of
\* mutations is a sequence of them.

\* Values of Date.now().
MaxClock == 1

\* Documents the savedDomains table is given during a run.
MaxSaved == 2

\* The _id of the next document of a table.
NewId(d, table) == << table, d.nextId[table] >>

\* ctx.db.insert(table, doc): doc is given its _id and goes to the end of the table.
Insert(d, table, doc) ==
  [d EXCEPT ![table] = Append(@, [doc EXCEPT !._id = NewId(d, table)]),
            !.nextId[table] = @ + 1]

\* The documents of a table with an id.
ById(d, table, id) == SelectSeq(d[table], LAMBDA r : r._id = id)

\* A by_domain lookup that finds nothing.
ByDomain_None(d, domain) == <<>>

\* query("savedDomains").withIndex("by_domain", q => q.eq("domain", domain))
ByDomain(d, domain) == SelectSeq(d.savedDomains, LAMBDA r : r.domain = domain)

\* ctx.db.patch(existing._id, {...args, checkedAt: Date.now()}): a field of
\* args replaces the document's, an optional field absent from args is left.
PatchSaved(r, args, now) ==
  [r EXCEPT !.userId = args.userId,
            !.domain = args.domain,
            !.tld = args.tld,
            !.available = args.available,
            !.projectIdea = IF args.projectIdea = Undefined THEN @ ELSE args.projectIdea,
            !.notes = IF args.notes = Undefined THEN @ ELSE args.notes,
            !.checkedAt = now]

\* The handler of save and of saveInternal: [db, result].
SaveHandler(d, args) ==
  LET existing == ByDomain(d, args.domain)
  IN  IF existing # <<>>
      THEN [db     |-> [d EXCEPT !.savedDomains =
                          [k \in 1..Len(@) |->
                             IF @[k]._id = existing[1]._id
                             THEN PatchSaved(@[k], args, d.clock) ELSE @[k]]],
            result |-> existing[1]._id]
      ELSE [db     |-> Insert(d, "savedDomains",
                         [_id |-> NewId(d, "savedDomains"), userId |-> args.userId,
                          domain |-> args.domain, tld |-> args.tld,
                          available |-> args.available,
                          projectIdea |-> args.projectIdea, notes |-> args.notes,
                          checkedAt |-> d.clock, createdAt |-> d.clock]),
            result |-> NewId(d, "savedDomains")]

\* query("savedDomains").withIndex("by_user", ...).order("desc").collect()
listByUser(d, userId) ==
  LET mine == SelectSeq(d.savedDomains, LAMBDA r : r.userId = userId)
  IN  [k \in 1..Len(mine) |-> mine[Len(mine) + 1 - k]]

\* The ids of two users documents.
UserA == << "users", 1 >>

UserB == << "users", 2 >>

\* What a user writes about a domain.
NotesOf(u) == << "notes of", u >>

IdeaOf(u) == << "idea of", u >>

\* The arguments of a save by user u of domain d, with notes or without.
SaveArg(u, d, noted) ==
  [userId |-> u, domain |-> d, tld |-> SliceFromFirstDot(d), available |-> TRUE,
   projectIdea |-> Some(IdeaOf(u)),
   notes |-> IF noted THEN Some(NotesOf(u)) ELSE Undefined]

\* User A saves either domain of the pool with notes; user B saves the first
\* one, with notes or without.
SaveArgs ==
  { SaveArg(UserA, Pool[1], TRUE), SaveArg(UserA, Pool[2], TRUE),
    SaveArg(UserB, Pool[1], TRUE), SaveArg(UserB, Pool[1], FALSE) }

\* Ids a client may hold: of documents that exist, existed or never did.
SavedIds == { << "savedDomains", n >> : n \in 1..(MaxSaved + 1) }

InitDomains ==
  /\ provider = "godaddy"
  /\ env = {}
  /\ domains = <<>>
  /\ pc = "db_domains"
  /\ i = 1
  /\ results = <<>>
  /\ hist = <<>>
  /\ attempts = 0
  /\ looked = {}
  /\ fetchCount = 0
  /\ inFlight = 0
  /\ netMode = <<>>
  /\ status = "pending"
  /\ returned = <<>>
  /\ path = "none"
  /\ snapshot = <<>>
  /\ ToolsIdle

dbFrame ==
  << provider, env, domains, pc, i, results, hist, attempts, looked, fetchCount, inFlight,
     netMode, status, returned, path, snapshot, keywords, options, suggestions,
     candidates, filePath, requests, commits, modLog, chat >>

\* call remembers the mutation, its arguments, what it returned, what its
\* lookup found and the value Date.now() had.
Called(op, args, result, existing) ==
  [op |-> op, args |-> args, result |-> result, existing |-> existing, now |-> db.clock]

\* One of the two save mutations runs; a new document needs a free id.
Save(op, args) ==
  /\ pc = "db_domains"
  /\ ByDomain(db, args.domain) = <<>> => db.nextId.savedDomains <= MaxSaved
  /\ db' = SaveHandler(db, args).db
  /\ call' = Called(op, args, SaveHandler(db, args).result, ByDomain(db, args.domain))
  /\ UNCHANGED dbFrame

\* remove({domainId}): ctx.db.delete throws when there is no such document.
Remove(domainId) ==
  /\ pc = "db_domains"
  /\ IF ById(db, "savedDomains", domainId) = <<>>
     THEN /\ call' = Called("remove", domainId, "throws", <<>>)
          /\ UNCHANGED db
     ELSE /\ db' = [db EXCEPT !.savedDomains = SelectSeq(@, LAMBDA r : r._id # domainId)]
          /\ call' = Called("remove", domainId, "null", ById(db, "savedDomains", domainId))
  /\ UNCHANGED dbFrame

\* updateNotes({domainId, notes}): ctx.db.patch throws when there is no such
\* document.
UpdateNotes(domainId, notes) ==
  /\ pc = "db_domains"
  /\ IF ById(db, "savedDomains", domainId) = <<>>
     THEN /\ call' = Called("updateNotes", << domainId, notes >>, "throws", <<>>)
          /\ UNCHANGED db
     ELSE /\ db' = [db EXCEPT !.savedDomains =
                      [k \in 1..Len(@) |->
                         IF @[k]._id = domainId THEN [@[k] EXCEPT !.notes = Some(notes)]
                         ELSE @[k]]]
          /\ call' = Called("updateNotes", << domainId, notes >>, "null",
                          ById(db, "savedDomains", domainId))
  /\ UNCHANGED dbFrame

\* Time passes between two mutations.
Tick ==
  /\ pc = "db_domains"
  /\ db.clock < MaxClock
  /\ db' = [db EXCEPT !.clock = @ + 1]
  /\ UNCHANGED << call, dbFrame >>

NextDomains ==
  \/ \E op \in { "save", "saveInternal" }, args \in SaveArgs : Save(op, args)
  \/ \E domainId \in SavedIds : Remove(domainId)
  \/ \E domainId \in SavedIds : UpdateNotes(domainId, << "edited" >>)
  \/ Tick

SpecDomains == InitDomains /\ [][NextDomains]_vars

(* -------------------- users, strategies and themes ---------------------- *)

\* Documents the ideationStrategies table, and the themes table, is given
\* during a run.
MaxDocs == 5

\* `anon_${anonymousId}@domainbot.local`
AnonEmail(anonymousId) == << "anon_", anonymousId, "@domainbot.local" >>

\* A by_email lookup that finds nothing.
UsersByEmail_None(d, email) == <<>>

\* query("users").withIndex("by_email", q => q.eq("email", email))
UsersByEmail(d, email) == SelectSeq(d.users, LAMBDA r : r.email = email)

\* getOrCreateAnonymous: [db, result].
getOrCreateAnonymous(d, anonymousId) ==
  LET existing == UsersByEmail(d, AnonEmail(anonymousId))
  IN  IF existing # <<>>
      THEN [db |-> d, result |-> existing[1]._id]
      ELSE [db     |-> Insert(d, "users",
                         [_id |-> <<>>, name |-> "Anonymous User",
                          email |-> AnonEmail(anonymousId), selectedTheme |-> "claude",
                          selectedModel |-> "claude-3-5-sonnet-20241022"]),
            result |-> NewId(d, "users")]

\* The values localStorage may hold under domainbot_anonymous_user.
AnonymousIds == { "uuid-1", "uuid-2" }

RECURSIVE InsertEach(_, _, _)
\* for (const doc of docs) await ctx.db.insert(table, doc)
InsertEach(d, table, docs) ==
  IF docs = <<>> THEN d
  ELSE InsertEach(Insert(d, table, Head(docs)), table, Tail(docs))

Strategy(name, description) ==
  [_id |-> <<>>, name |-> name, description |-> description, enabled |-> TRUE]

\* part_000:217-250
defaultStrategies ==
  << Strategy("Prefixed Keywords", "Add common prefixes like 'get', 'try', 'use' to keywords"),
     Strategy("Suffixed Keywords", "Add common suffixes like 'app', 'hq', 'hub' to keywords"),
     Strategy("Compound Words", "Combine multiple keywords together"),
     Strategy("Short Forms", "Use abbreviations and shortened forms") >>

\* A seeding that does not look at the table first.
seedDefaults_Unguarded(d) ==
  [db     |-> InsertEach(d, "ideationStrategies", defaultStrategies),
   result |-> [seeded |-> TRUE, count |-> Len(defaultStrategies)]]

\* seedDefaults: [db, result].
seedDefaults(d) ==
  IF d.ideationStrategies # <<>>
  THEN [db |-> d, result |-> [seeded |-> FALSE, count |-> 0]]
  ELSE [db     |-> InsertEach(d, "ideationStrategies", defaultStrategies),
        result |-> [seeded |-> TRUE, count |-> Len(defaultStrategies)]]

\* query("ideationStrategies").filter(q => q.eq(q.field("name"), name))
StrategiesByName(d, name) == SelectSeq(d.ideationStrategies, LAMBDA r : r.name = name)

\* upsert: [db, result].
upsert(d, args) ==
  LET existing == StrategiesByName(d, args.name)
  IN  IF existing # <<>>
      THEN [db     |-> [d EXCEPT !.ideationStrategies =
                          [k \in 1..Len(@) |->
                             IF @[k]._id = existing[1]._id
                             THEN [@[k] EXCEPT !.description = args.description]
                             ELSE @[k]]],
            result |-> existing[1]._id]
      ELSE [db     |-> Insert(d, "ideationStrategies", Strategy(args.name, args.description)),
            result |-> NewId(d, "ideationStrategies")]

Theme(name, slug, isBuiltIn) ==
  [_id |-> <<>>, name |-> name, slug |-> slug, isBuiltIn |-> isBuiltIn]

\* themes.ts:66-121
builtInThemes == << Theme("Claude", "claude", TRUE), Theme("Retro 80s", "retro80s", TRUE) >>

\* seedBuiltInThemes: [db, result].
seedBuiltInThemes(d) ==
  IF Len(d.themes) > 0
  THEN [db |-> d, result |-> "Themes already seeded"]
  ELSE [db |-> InsertEach(d, "themes", builtInThemes), result |-> "Built-in themes seeded"]

InitSetup ==
  /\ provider = "godaddy"
  /\ env = {}
  /\ domains = <<>>
  /\ pc = "db_setup"
  /\ i = 1
  /\ results = <<>>
  /\ hist = <<>>
  /\ attempts = 0
  /\ looked = {}
  /\ fetchCount = 0
  /\ inFlight = 0
  /\ netMode = <<>>
  /\ status = "pending"
  /\ returned = <<>>
  /\ path = "none"
  /\ snapshot = <<>>
  /\ ToolsIdle

\* users.getOrCreateAnonymous({anonymousId})
GetOrCreateAnonymous(anonymousId) ==
  /\ pc = "db_setup"
  /\ db' = getOrCreateAnonymous(db, anonymousId).db
  /\ call' = Called("getOrCreateAnonymous", anonymousId,
                    getOrCreateAnonymous(db, anonymousId).result,
                    UsersByEmail(db, AnonEmail(anonymousId)))
  /\ UNCHANGED dbFrame

\* strategies.seedDefaults({}); a seeding needs free ids.
SeedDefaults ==
  /\ pc = "db_setup"
  /\ db.ideationStrategies = <<>> =>
       db.nextId.ideationStrategies + Len(defaultStrategies) - 1 <= MaxDocs
  /\ db' = seedDefaults(db).db
  /\ call' = Called("seedDefaults", <<>>, seedDefaults(db).result, db.ideationStrategies)
  /\ UNCHANGED dbFrame

\* strategies.upsert(args)
Upsert(args) ==
  /\ pc = "db_setup"
  /\ StrategiesByName(db, args.name) = <<>> => db.nextId.ideationStrategies <= MaxDocs
  /\ db' = upsert(db, args).db
  /\ call' = Called("upsert", args, upsert(db, args).result, StrategiesByName(db, args.name))
  /\ UNCHANGED dbFrame

\* strategies.remove({strategyId}) of a strategy the admin page lists.
RemoveStrategy(strategyId) ==
  /\ pc = "db_setup"
  /\ ById(db, "ideationStrategies", strategyId) # <<>>
  /\ db' = [db EXCEPT !.ideationStrategies = SelectSeq(@, LAMBDA r : r._id # strategyId)]
  /\ call' = Called("removeStrategy", strategyId, "null",
                    ById(db, "ideationStrategies", strategyId))
  /\ UNCHANGED dbFrame

\* themes.seedBuiltInThemes({})
SeedBuiltInThemes ==
  /\ pc = "db_setup"
  /\ db.themes = <<>> => db.nextId.themes + Len(builtInThemes) - 1 <= MaxDocs
  /\ db' = seedBuiltInThemes(db).db
  /\ call' = Called("seedBuiltInThemes", <<>>, seedBuiltInThemes(db).result, db.themes)
  /\ UNCHANGED dbFrame

\* themes.create(args)
CreateTheme(name, slug) ==
  /\ pc = "db_setup"
  /\ db.nextId.themes <= MaxDocs
  /\ db' = Insert(db, "themes", Theme(name, slug, FALSE))
  /\ call' = Called("createTheme", slug, NewId(db, "themes"), <<>>)
  /\ UNCHANGED dbFrame

NextSetup ==
  \/ \E anonymousId \in AnonymousIds : GetOrCreateAnonymous(anonymousId)
  \/ SeedDefaults
  \/ \E name \in { "Short Forms", "Rhymes" } :
        Upsert([name |-> name, description |-> "edited by the admin"])
  \/ \E n \in 1..MaxDocs : RemoveStrategy(<< "ideationStrategies", n >>)
  \/ SeedBuiltInThemes
  \/ CreateTheme("Mine", "mine")

SpecSetup == InitSetup /\ [][NextSetup]_vars

(* ------------------------------- ChatArea ------------------------------- *)

\* Messages on the page beyond which no new submit is modelled.
MaxMessages == 3

\* s.trim()
Trim(s) ==
  LET solid == { k \in 1..Len(s) : s[k] # " " }
  IN  IF solid = {} THEN <<>>
      ELSE SubSeq(s, CHOOSE k \in solid : \A j \in solid : k <= j,
                     CHOOSE k \in solid : \A j \in solid : j <= k)

\* What the visitor may type: blanks only, or an idea with blanks around it.
TypedTexts == { << " " >>, << " ", "s", "h", "o", "p", " " >> }

\* The two versions of the component: "agent" (part_005, one chat action)
\* and "classic" (ChatArea.tsx, addMessage and generateAIResponse).
ChatVersions == { "agent", "classic" }

\* useState initial values (part_005:290-293, ChatArea.tsx:21-24).
Mounted(version, userId) ==
  [version |-> version, userId |-> userId, pc |-> "ready", isTyping |-> FALSE,
   input |-> <<>>, activeThreadId |-> Undefined, messages |-> <<>>, projectIdea |-> <<>>]

\* disabled={isTyping || !userId}
InputDisabled == chat.isTyping \/ chat.userId = Undefined

Message(role, content) == [role |-> role, content |-> content]

InitChat ==
  /\ provider = "godaddy"
  /\ env = {}
  /\ domains = <<>>
  /\ pc = "chat"
  /\ i = 1
  /\ results = <<>>
  /\ hist = <<>>
  /\ attempts = 0
  /\ looked = {}
  /\ fetchCount = 0
  /\ inFlight = 0
  /\ netMode = <<>>
  /\ status = "pending"
  /\ returned = <<>>
  /\ path = "none"
  /\ snapshot = <<>>
  /\ ToolsIdle

chatFrame ==
  << provider, env, domains, pc, i, results, hist, attempts, looked, fetchCount, inFlight,
     netMode, status, returned, path, snapshot, keywords, options, suggestions,
     candidates, filePath, requests, commits, modLog, call, db >>

\* The page is opened, before or after UserProvider has a user id.
OpenChat(version, userId) ==
  /\ pc = "chat"
  /\ chat = NoChat
  /\ chat' = Mounted(version, userId)
  /\ UNCHANGED chatFrame

\* getOrCreateAnonymous has answered: useUser() now gives the user id.
UserArrives ==
  /\ pc = "chat"
  /\ chat # NoChat
  /\ chat.userId = Undefined
  /\ chat' = [chat EXCEPT !.userId = Some(UserA)]
  /\ UNCHANGED chatFrame

\* The visitor types into the input, which must be enabled.
TypeInput(text) ==
  /\ pc = "chat"
  /\ chat # NoChat
  /\ chat.pc = "ready"
  /\ ~InputDisabled
  /\ chat' = [chat EXCEPT !.input = text]
  /\ UNCHANGED chatFrame

\* The visitor picks a conversation in the sidebar, or "new chat" (<<>>); the
\* effect on conversationId clears the messages (classic: for a new chat only).
SelectConversation(conversationId) ==
  /\ pc = "chat"
  /\ chat # NoChat
  /\ chat.pc = "ready"
  /\ chat.activeThreadId # conversationId
  /\ chat' = [chat EXCEPT !.activeThreadId = conversationId,
                          !.messages = IF chat.version = "agent" \/ conversationId = Undefined
                                       THEN <<>> ELSE @]
  /\ UNCHANGED chatFrame

\* setMessages(prev => [...prev, userMessage]); setInput(""); setIsTyping(true)
ShowUserMessage(c) ==
  [c EXCEPT !.messages = Append(@, Message("user", c.projectIdea)),
            !.input = <<>>,
            !.isTyping = TRUE]

\* handleSubmit up to its first await.
Submit ==
  /\ pc = "chat"
  /\ chat # NoChat
  /\ chat.pc = "ready"
  /\ ~InputDisabled
  /\ Len(chat.messages) < MaxMessages
  /\ Trim(chat.input) # <<>>
  /\ LET c == [chat EXCEPT !.projectIdea = Trim(chat.input)]
     IN  chat' =
           IF chat.version = "agent"
           THEN [ShowUserMessage(c) EXCEPT
                   !.pc = IF chat.activeThreadId = Undefined THEN "createThread" ELSE "chat"]
           ELSE IF chat.activeThreadId = Undefined
                THEN [c EXCEPT !.pc = "createThread"]
                ELSE [ShowUserMessage(c) EXCEPT !.pc = "addUserMessage"]
  /\ UNCHANGED chatFrame

\* await createThread(...) settles; a rejection leaves handleSubmit, which has
\* no handler around this await.
CreateThreadSettles(ok) ==
  /\ pc = "chat"
  /\ chat # NoChat
  /\ chat.pc = "createThread"
  /\ chat' =
       IF ~ok THEN [chat EXCEPT !.pc = "ready"]
       ELSE IF chat.version = "agent"
            THEN [chat EXCEPT !.activeThreadId = Some("new thread"), !.pc = "chat"]
            ELSE [ShowUserMessage(chat) EXCEPT !.activeThreadId = Some("new thread"),
                                              !.pc = "addUserMessage"]
  /\ UNCHANGED chatFrame

\* catch (error) { setIsTyping(false); ...; setMessages(prev => [...prev, errorMessage]) }
Catch(c) ==
  [c EXCEPT !.isTyping = FALSE,
            !.messages = Append(@, Message("assistant", << "error" >>)),
            !.pc = "ready"]

\* classic: await addMessage({role: "user"}) settles, outside the try block.
AddUserMessageSettles(ok) ==
  /\ pc = "chat"
  /\ chat # NoChat
  /\ chat.pc = "addUserMessage"
  /\ chat' = IF ok THEN [chat EXCEPT !.pc = "generateAIResponse"]
             ELSE [chat EXCEPT !.pc = "ready"]
  /\ UNCHANGED chatFrame

\* agent: await chat({threadId, message}) settles, inside the try block.
ChatSettles(ok) ==
  /\ pc = "chat"
  /\ chat # NoChat
  /\ chat.pc = "chat"
  /\ chat' = IF ok
             THEN [chat EXCEPT !.messages = Append(@, Message("assistant", << "text" >>)),
                               !.isTyping = FALSE,
                               !.pc = "ready"]
             ELSE Catch(chat)
  /\ UNCHANGED chatFrame

\* classic: await generateAIResponse(...) settles, inside the try block.
GenerateSettles(ok) ==
  /\ pc = "chat"
  /\ chat # NoChat
  /\ chat.pc = "generateAIResponse"
  /\ chat' = IF ok
             THEN [chat EXCEPT !.messages = Append(@, Message("assistant", << "thinking" >>)),
                               !.pc = "addThinking"]
             ELSE Catch(chat)
  /\ UNCHANGED chatFrame

\* classic: await addMessage(thinking) settles; then the results message is
\* shown and isTyping is cleared.
AddThinkingSettles(ok) ==
  /\ pc = "chat"
  /\ chat # NoChat
  /\ chat.pc = "addThinking"
  /\ chat' = IF ok
             THEN [chat EXCEPT !.messages = Append(@, Message("assistant", << "results" >>)),
                               !.isTyping = FALSE,
                               !.pc = "addResults"]
             ELSE Catch(chat)
  /\ UNCHANGED chatFrame

\* classic: await addMessage(results) settles.
AddResultsSettles(ok) ==
  /\ pc = "chat"
  /\ chat # NoChat
  /\ chat.pc = "addResults"
  /\ chat' = IF ok THEN [chat EXCEPT !.pc = "ready"] ELSE Catch(chat)
  /\ UNCHANGED chatFrame

\* An awaited promise settles, either way.
Settles ==
  \E ok \in BOOLEAN :
    \/ CreateThreadSettles(ok)
    \/ AddUserMessageSettles(ok)
    \/ ChatSettles(ok)
    \/ GenerateSettles(ok)
    \/ AddThinkingSettles(ok)
    \/ AddResultsSettles(ok)

NextChat ==
  \/ \E version \in ChatVersions, userId \in { Undefined, Some(UserA) } :
        OpenChat(version, userId)
  \/ UserArrives
  \/ \E text \in TypedTexts : TypeInput(text)
  \/ \E conversationId \in { Undefined, Some("old thread") } :
        SelectConversation(conversationId)
  \/ Submit
  \/ Settles

SpecChat == InitChat /\ [][NextChat]_vars

\* Every promise handleSubmit awaits settles in the end; the visitor is under
\* no obligation to do anything.
SpecChatFair == SpecChat /\ WF_vars(Settles)

(* ------------------------------ properties ----------------------------- *)

Configured == CredentialsOf(provider) \subseteq env

\* The GoDaddy loop has just finished the lookup of domain i - 1: hist holds
\* the responses that lookup received and attempts the fetches it issued.
AfterLookup ==
  /\ provider = "godaddy"
  /\ pc \in { "gd_loop", "gd_delay", "done" }
  /\ i > 1

\* The lookup that has just finished ended in a failure.
LookupFailed == hist # <<>> /\ hist[Len(hist)].kind # "data"

AllRateLimited ==
  /\ hist # <<>>
  /\ \A k \in 1..Len(hist) : hist[k].kind = "status" /\ hist[k].status = 429

\* C1: on the GoDaddy path and on the mock paths the list checkDomains returns
\* has the length of the input and its k-th entry is about the k-th input
\* domain, whatever the registrar answered; inside the loop the results array
\* holds exactly one entry per domain already looked up.
C1_OrderPreserved ==
  /\ (pc = "done" /\ (provider = "godaddy" \/ path \in { "mock", "fallback" })) =>
        /\ status = "resolved"
        /\ Len(returned) = Len(domains)
        /\ \A k \in 1..Len(domains) : returned[k].domain = domains[k]
  /\ (provider = "godaddy" /\ pc \in { "gd_loop", "gd_delay" }) =>
        /\ Len(results) = i - 1
        /\ \A k \in 1..Len(results) : results[k].domain = domains[k]

\* C1 witness: a GoDaddy call over two domains has returned, one lookup
\* failed, the other succeeded, and a retry took place.
C1_Witness ==
  /\ pc = "done" /\ provider = "godaddy" /\ path = "registrar"
  /\ Len(domains) = 2 /\ domains[1] # domains[2]
  /\ fetchCount > Len(domains)
  /\ returned[1].errorMessage # Undefined
  /\ returned[2].errorMessage = Undefined

\* C2: the promise of checkDomains is never rejected, and a finished call is
\* resolved with a list: the registrar's, or the mock's for the whole input.
C2_NeverRejects ==
  /\ status # "rejected"
  /\ pc = "done" =>
        /\ status = "resolved"
        /\ (path = "registrar" \/ returned = mockDomainAvailability(domains))

\* C2 witness: the Namecheap registrar path threw and the call resolved.
C2_Witness ==
  /\ pc = "done" /\ provider = "namecheap" /\ path = "fallback"
  /\ status = "resolved" /\ fetchCount > 0 /\ Len(returned) > 0

\* C3: without every required credential the call is answered by the mock
\* for the whole list and no request is sent; requests are sent and the
\* registrar path is entered only with every credential present.
C3_UnconfiguredUsesMock ==
  /\ (fetchCount > 0 \/ inFlight > 0) => Configured
  /\ pc \in { "gd_loop", "gd_await", "gd_backoff", "gd_retry_await", "gd_delay",
              "nc_loop", "nc_await", "hung" } => Configured
  /\ (pc = "done" /\ ~Configured) =>
        /\ path = "mock"
        /\ returned = mockDomainAvailability(domains)
        /\ fetchCount = 0
  /\ (pc = "done" /\ Configured) => path # "mock"

\* C3 witness: a call with some but not all Namecheap credentials returned.
C3_Witness ==
  /\ pc = "done" /\ provider = "namecheap"
  /\ env # {} /\ ~Configured
  /\ Len(domains) > 0 /\ path = "mock"

\* C4 as stated: after a throw of the registrar path the results already
\* obtained from the registrar are kept at the head of the returned list.
C4_PartialResultsKept ==
  (pc = "done" /\ path = "fallback") =>
     /\ Len(returned) = Len(domains)
     /\ SubSeq(returned, 1, Len(results)) = results

\* C4 amended: after a throw of the registrar path the whole input list is
\* answered by the mock, one result per input domain; results of earlier
\* sub-batches are not part of the answer.
C4_FallbackAnswersWholeList ==
  (pc = "done" /\ path = "fallback") =>
     /\ status = "resolved"
     /\ Len(returned) = Len(domains)
     /\ returned = mockDomainAvailability(domains)

\* C4 witness: the second sub-batch threw after the first had been answered
\* by the registrar with results the mock does not give.
C4_Witness ==
  /\ pc = "done" /\ path = "fallback"
  /\ i = 2 /\ Len(results) = MAX_DOMAINS_PER_REQUEST
  /\ results[2] # returned[2]

\* C5: a failed lookup never ends the GoDaddy loop: the domain gets a result
\* with an errorMessage (and a successful lookup one without), the call ends
\* on the registrar path with every domain looked up, and a step of the loop
\* never changes a result already in the array.
C5_FailureKeepsLoopGoing ==
  /\ [](AfterLookup =>
          /\ Len(results) >= i - 1
          /\ results[i - 1].domain = domains[i - 1]
          /\ (LookupFailed <=> results[i - 1].errorMessage # Undefined)
          /\ (LookupFailed => ~results[i - 1].available))
  /\ []((pc = "done" /\ provider = "godaddy" /\ Configured) =>
          /\ path = "registrar"
          /\ looked = 1..Len(domains)
          /\ returned = results)
  /\ [][(provider = "godaddy" /\ pc \in { "gd_await", "gd_retry_await", "gd_loop" }) =>
          SubSeq(results', 1, Len(results)) = results]_vars

\* C5 witness: the first lookup failed, the second succeeded, the call returned.
C5_Witness ==
  /\ pc = "done" /\ provider = "godaddy" /\ path = "registrar"
  /\ Len(domains) = 2
  /\ returned[1].errorMessage # Undefined
  /\ returned[2].errorMessage = Undefined
  /\ returned[2].available

\* C6 as stated: a domain whose every attempt returns 429 is attempted
\* 1 + 2 times.
C6_ThreeAttemptsOn429 ==
  (AfterLookup /\ AllRateLimited) => attempts = 3

\* C6 amended: a domain whose every attempt returns 429 is attempted exactly
\* twice (one retry), then gets the errorMessage of the 429; no domain is
\* attempted more than twice, and each domain has its own retry.
C6_OneRetryOn429 ==
  /\ attempts <= 2
  /\ provider = "godaddy" => fetchCount <= 2 * Len(domains)
  /\ (AfterLookup /\ AllRateLimited) =>
        /\ attempts = 2
        /\ Len(hist) = 2
        /\ results[i - 1].errorMessage = Some("API error: 429")
        /\ ~results[i - 1].available

\* C6 witness: the second domain of a list was rate limited on both attempts
\* after the first domain had been rate limited on both of its own.
C6_Witness ==
  /\ AfterLookup /\ AllRateLimited
  /\ i = 3 /\ attempts = 2 /\ fetchCount = 4
  /\ results[1].errorMessage = Some("API error: 429")

\* C7: a call over some domains whose registrar request never resolves still
\* goes on: the request is abandoned (after its single attempt) and the call
\* can take a step towards its completion.
C7_HungRequestIsAbandoned ==
  (pc = "hung" /\ domains # <<>>) => ENABLED Next

\* C8: at most 5 registrar requests are in flight at any time.
C8_AtMostFiveInFlight == inFlight <= 5

\* C8 witness: a request is in flight in a GoDaddy call over 50 domains
\* after more than 5 lookups have completed.
C8_Witness ==
  /\ provider = "godaddy" /\ pc = "gd_await"
  /\ Len(domains) = MAX_DOMAINS_PER_REQUEST
  /\ i > 6 /\ inFlight = 1

C10_PremiumDerived ==
  pc = "parsed" =>
     LET data == hist[1]
         r    == results[1]
     IN  /\ r.domain = domains[1]
         /\ r.available = (data.available = "true")
         /\ r.premium = (/\ r.available
                         /\ data.price # Undefined
                         /\ data.price[1] > 50 * 1000000)
         /\ (r.price # Undefined) = r.premium
         /\ r.premium =>
               /\ r.price[1] * 1000000 + r.price[2] = data.price[1]
               /\ r.price[2] >= 0 /\ r.price[2] < 1000000
         /\ r.errorMessage = Undefined

\* C10 witness: a price one micro-unit above the threshold made an available
\* domain premium.
C10_Witness ==
  /\ pc = "parsed"
  /\ hist[1].price = << 50000001 >>
  /\ results[1].premium /\ results[1].price = << 50, 1 >>

(* ---- the mock generator's availability rule (SpecMock) ---- *)

\* Positions of the dots of s.
DotsOf(s) == { k \in 1..Len(s) : s[k] = "." }

\* The text before position cut and the text from it on.
Before(s, cut) == SubSeq(s, 1, cut - 1)

From(s, cut) == SubSeq(s, cut, Len(s))

FirstDot(s) == IF DotsOf(s) = {} THEN Len(s) + 1 ELSE CHOOSE k \in DotsOf(s) : \A j \in DotsOf(s) : k <= j

LastDot(s) == IF DotsOf(s) = {} THEN Len(s) + 1 ELSE CHOOSE k \in DotsOf(s) : \A j \in DotsOf(s) : j <= k

\* The likely-taken rule, on a label and a tld.
LikelyTakenRule(label, tld) ==
  \/ Len(label) <= 4
  \/ (tld = <<".","c","o","m">> /\ Len(label) <= 8)
  \/ \E p \in { <<"g","e","t">>, <<"m","y">>, <<"t","h","e">>, <<"g","o">> } :
        /\ Len(label) > Len(p)
        /\ \A k \in 1..Len(label) :
              IF k <= Len(p) THEN label[k] = p[k] ELSE IsLower(label[k])

MockAnswered == pc = "mock_done" /\ Len(returned) = 1 /\ returned[1].domain = domains[1]

\* C11 as stated: a domain is available iff it is not likely-taken and its
\* character-code sum mod 100 exceeds 30, the label being the domain minus its
\* LAST .tld, also for domains with more than one dot.
C11_LabelUpToLastDot ==
  MockAnswered =>
    LET d == domains[1]
    IN  returned[1].available
          = (/\ ~LikelyTakenRule(Before(d, LastDot(d)), From(d, LastDot(d)))
             /\ SumCodes(d) % 100 > 30)

\* C11 amended: a domain is available iff it is not likely-taken and its
\* character-code sum mod 100 exceeds 30, the label being the text before the
\* FIRST dot and the tld everything from the first dot on.
C11_LabelUpToFirstDot ==
  MockAnswered =>
    LET d == domains[1]
    IN  returned[1].available
          = (/\ ~LikelyTakenRule(Before(d, FirstDot(d)), From(d, FirstDot(d)))
             /\ SumCodes(d) % 100 > 30)

\* A domain with two dots is answered available although its label up to the
\* last dot is likely-taken.
C11_Witness ==
  /\ MockAnswered
  /\ Cardinality(DotsOf(domains[1])) = 2
  /\ returned[1].available
  /\ LikelyTakenRule(Before(domains[1], LastDot(domains[1])), From(domains[1], LastDot(domains[1])))

\* C12: under the mock, a domain whose label (the domain minus its last .tld)
\* has at most 4 characters is answered available = false, whatever its hash.
C12_ShortLabelUnavailable ==
  (MockAnswered /\ Len(Before(domains[1], LastDot(domains[1]))) <= 4)
    => returned[1].available = FALSE

\* A short label whose hash alone would have made it available.
C12_Witness ==
  /\ MockAnswered
  /\ Len(Before(domains[1], LastDot(domains[1]))) <= 4
  /\ SumCodes(domains[1]) % 100 > 30
  /\ returned[1].available = FALSE

(* ---- the candidate generators (SpecGen) ---- *)

Range(s) == { s[k] : k \in 1..Len(s) }

NoDuplicates(s) == \A j, k \in 1..Len(s) : j < k => s[j] # s[k]

EndsWith(s, t) == Len(s) >= Len(t) /\ SubSeq(s, Len(s) - Len(t) + 1, Len(s)) = t

\* The normalized keywords and the active tlds of the call under way.
Clean == CleanKeywords(keywords)

Active == ActiveTlds(options.tlds)

MaxResults == MaxResultsOf(options)

\* C13 as stated: for every keyword list and every options value,
\* generateDomainNames returns a list without duplicates whose length is at
\* most maxResults (20 when maxResults is not given).
C13_DistinctAndBounded ==
  pc = "gen_done" => (NoDuplicates(candidates) /\ Len(candidates) <= MaxResults)

\* C13 amended: for every keyword list and every options value the returned
\* list has no duplicates; its length is at most maxResults (20 when not given)
\* when maxResults is not negative, while slice(0, maxResults) with a negative
\* maxResults returns all the distinct candidates but the last -maxResults.
C13_DistinctAndSliced ==
  pc = "gen_done" =>
    /\ NoDuplicates(candidates)
    /\ MaxResults >= 0 => Len(candidates) <= MaxResults
    /\ MaxResults < 0 =>
         Len(candidates) = (IF Len(suggestions) + MaxResults > 0
                            THEN Len(suggestions) + MaxResults ELSE 0)

\* A repeated keyword, and a list that was cut to exactly maxResults entries.
C13_Witness ==
  /\ pc = "gen_done"
  /\ Len(Clean) = 2
  /\ Clean[1] = Clean[2]
  /\ MaxResults > 0
  /\ Len(candidates) = MaxResults
  /\ Len(suggestions) > MaxResults

\* C14 as stated: with a tlds option, every returned candidate ends with a
\* supplied tld, and for EACH normalized keyword k the candidates k+tld of the
\* supplied tlds are in the returned list (here with maxResults left at its
\* default).
C14_EveryKeywordDirect ==
  (pc = "gen_done" /\ options.tlds # Undefined /\ options.maxResults = Undefined) =>
    /\ \A c \in Range(candidates) : \E t \in Range(Active) : EndsWith(c, t)
    /\ \A k \in Range(Clean), t \in Range(Active) : (k \o t) \in Range(candidates)

\* C14 amended: with a tlds option, every returned candidate ends with a
\* supplied tld; the candidates k+tld of every normalized keyword are added to
\* the suggestions, but the returned list is cut to maxResults entries, so only
\* those of the first normalized keyword with the j-th supplied tld, j <=
\* maxResults, are sure to be returned.
C14_SuppliedTldsOnly ==
  (pc = "gen_done" /\ options.tlds # Undefined) =>
    /\ \A c \in Range(candidates) : \E t \in Range(Active) : EndsWith(c, t)
    /\ \A k \in Range(Clean), t \in Range(Active) : (k \o t) \in Range(suggestions)
    /\ \A j \in 1..Len(Active) :
          (Clean # <<>> /\ j <= MaxResults) => (Clean[1] \o Active[j]) \in Range(candidates)

\* Two keywords with supplied tlds: the first keyword's direct candidates are
\* returned, the second keyword's are cut off.
C14_Witness ==
  /\ pc = "gen_done"
  /\ options.tlds # Undefined
  /\ Len(Active) > 0
  /\ Len(Clean) = 2
  /\ \A t \in Range(Active) : (Clean[1] \o t) \in Range(candidates)
  /\ \A t \in Range(Active) : (Clean[2] \o t) \notin Range(candidates)

\* C15 as stated: for any two distinct normalized keywords a and b, the
\* compound step of a candidate generator (generateDomainNames and the agent
\* tool's handler) adds both a+b+tld and b+a+tld for every active tld.
C15_CompoundBothOrders ==
  pc \in { "gen_built", "agent_built" } =>
    \A a, b \in Range(Clean), t \in Range(Active) :
       a # b => ((a \o b \o t) \in Range(suggestions) /\ (b \o a \o t) \in Range(suggestions))

\* The label added at slot s of keyword j: slot 1 is the keyword itself, then
\* one slot per prefix, one per suffix and one per keyword of the list (the
\* slot of a keyword equal to clean[j] repeats the keyword itself, which adds
\* nothing new).
SlotLabel(clean, j, s) ==
  LET np == Len(PREFIXES)
      ns == Len(SUFFIXES)
  IN  IF s = 1 THEN clean[j]
      ELSE IF s <= 1 + np THEN PREFIXES[s - 1] \o clean[j]
      ELSE IF s <= 1 + np + ns THEN clean[j] \o SUFFIXES[s - 1 - np]
      ELSE IF clean[s - 1 - np - ns] # clean[j] THEN clean[j] \o clean[s - 1 - np - ns]
      ELSE clean[j]

AffixSlots == 1 + Len(PREFIXES) + Len(SUFFIXES)

\* Keyword by keyword: all the slots of a keyword, compounds included, before
\* the next keyword.
KeywordByKeyword(clean, tlds) ==
  LET nt == Len(tlds)
      sl == AffixSlots + Len(clean)
  IN  [n \in 1..(Len(clean) * sl * nt) |->
         SlotLabel(clean, ((n - 1) \div (sl * nt)) + 1, (((n - 1) \div nt) % sl) + 1)
           \o tlds[((n - 1) % nt) + 1]]

\* The direct, prefix and suffix slots of all the keywords first, the compound
\* slots of all the keywords after them.
CompoundsAfterAll(clean, tlds) ==
  LET nt == Len(tlds)
      nk == Len(clean)
      na == nk * AffixSlots * nt
  IN  [n \in 1..(na + nk * nk * nt) |->
         IF n <= na
         THEN SlotLabel(clean, ((n - 1) \div (AffixSlots * nt)) + 1,
                        (((n - 1) \div nt) % AffixSlots) + 1)
                \o tlds[((n - 1) % nt) + 1]
         ELSE SlotLabel(clean, ((n - na - 1) \div (nk * nt)) + 1,
                        AffixSlots + (((n - na - 1) \div nt) % nk) + 1)
                \o tlds[((n - na - 1) % nt) + 1]]

FirstIndex(ref, x) == CHOOSE n \in 1..Len(ref) : ref[n] = x /\ \A m \in 1..(n - 1) : ref[m] # x

\* list holds the distinct elements of ref, each at the rank of its first
\* occurrence in ref.
DistinctInOrderOf(list, ref) ==
  /\ NoDuplicates(list)
  /\ Range(list) = Range(ref)
  /\ \A x \in 1..(Len(list) - 1) : FirstIndex(ref, list[x]) < FirstIndex(ref, list[x + 1])

\* The returned list is suggestions.slice(0, maxResults).
ReturnedIsSlice ==
  /\ Len(candidates) = (IF MaxResults >= 0
                        THEN (IF MaxResults < Len(suggestions) THEN MaxResults ELSE Len(suggestions))
                        ELSE (IF Len(suggestions) + MaxResults > 0
                              THEN Len(suggestions) + MaxResults ELSE 0))
  /\ \A n \in 1..Len(candidates) : candidates[n] = suggestions[n]

\* C20 as stated: candidates are emitted per keyword in input order (direct,
\* prefixed, suffixed), the compound candidates of keyword pairs only after the
\* per-keyword candidates of all keywords; the returned list is the first
\* maxResults distinct candidates of that sequence.
C20_CompoundsAfterAllKeywords ==
  pc = "gen_done" =>
    (DistinctInOrderOf(suggestions, CompoundsAfterAll(Clean, Active)) /\ ReturnedIsSlice)

\* C20 amended: for each normalized keyword in input order its direct, then
\* prefixed, then suffixed candidates and then its compounds with the other
\* keywords are emitted, before the next keyword's candidates; the returned
\* list is slice(0, maxResults) of the distinct candidates of that sequence.
C20_CompoundsInsideKeywordLoop ==
  pc = "gen_done" =>
    (DistinctInOrderOf(suggestions, KeywordByKeyword(Clean, Active)) /\ ReturnedIsSlice)

\* A compound of the first keyword is returned before the direct candidate of
\* the second keyword.
C20_Witness ==
  /\ pc = "gen_done"
  /\ Len(Clean) = 2
  /\ Clean[1] # Clean[2]
  /\ Len(Active) > 0
  /\ \E x, y \in 1..Len(candidates) :
        /\ x < y
        /\ candidates[x] = Clean[1] \o Clean[2] \o Active[1]
        /\ candidates[y] = Clean[2] \o Active[1]

(* ---- whitelisted self-modification (SpecModify) ---- *)

ModifyUnderWay == pc \in { "mod_get", "mod_put", "mod_log", "mod_done" }

\* filePath is exactly one of the whitelisted component or style paths.
Whitelisted(fp) ==
  fp \in { << "src/components/ui/Button.tsx" >>,
           << "src/components/ui/Card.tsx" >>,
           << "src/components/ui/Input.tsx" >>,
           << "src/components/chat/MessageBubble.tsx" >>,
           << "src/components/domains/DomainCard.tsx" >>,
           << "src/styles.css" >> }

\* filePath starts with a forbidden path.
UnderForbidden(fp) ==
  \E f \in { << "convex/schema.ts" >>, << "convex/auth.ts" >>, << "convex/agent", "/" >>,
             << "src/lib/auth.ts" >>, << ".env" >> } :
     Len(fp) >= Len(f) /\ \A k \in 1..Len(f) : fp[k] = f[k]

\* C16: for every filePath that is not exactly a whitelisted path, or that
\* starts with a forbidden path, modifySourceFile returns success = false
\* without any GitHub request (GET or PUT), any commit or any modification-log
\* entry; both isFileModifiable functions reject such a path.
C16_OnlyWhitelistedFilesChange ==
  (ModifyUnderWay /\ (~Whitelisted(filePath) \/ UnderForbidden(filePath))) =>
    /\ pc = "mod_done"
    /\ returned = << ModResult(FALSE, "not in the modifiable whitelist") >>
    /\ requests = <<>>
    /\ commits = <<>>
    /\ modLog = <<>>
    /\ ~toolsIsFileModifiable(filePath)

\* A path that goes through a whitelisted directory to a forbidden file is
\* refused although GitHub is fully configured.
C16_Witness ==
  /\ pc = "mod_done"
  /\ filePath = << "src/components/ui/", "../../../convex/schema.ts" >>
  /\ env = GitHubEnv
  /\ returned[1].success = FALSE
  /\ requests = <<>>

(* ---- Namecheap results (Spec) ---- *)

NamecheapAnswered ==
  /\ pc = "done"
  /\ provider = "namecheap"
  /\ path = "registrar"
  /\ status = "resolved"

\* C17 as stated: on the Namecheap registrar path, whatever the response body
\* lists (entries missing, reordered, duplicated, Domain spelled differently),
\* the returned list has exactly one entry per input domain, result[i].domain
\* being input[i].
C17_NamecheapOrderMatched ==
  NamecheapAnswered =>
    /\ Len(returned) = Len(domains)
    /\ \A k \in 1..Len(returned) : returned[k].domain = domains[k]

\* C18 as stated: in every result returned by any path of checkDomains, a
\* price is present only when premium is true.
C18_PriceOnlyWhenPremium ==
  (pc = "done" /\ status = "resolved") =>
    \A k \in 1..Len(returned) : returned[k].price # Undefined => returned[k].premium

(* ---- failures other than 429 (Spec) ---- *)

\* The first response of the lookup that has just finished was a failure other
\* than HTTP 429: fetch rejected, a non-OK status, or a body that cannot be
\* parsed.
FirstFailureNot429 ==
  /\ hist # <<>>
  /\ hist[1].kind # "data"
  /\ ~(hist[1].kind = "status" /\ hist[1].status = 429)

\* C19 as stated: a failure other than 429 is retried like rate limiting, and
\* the errorMessage is recorded only after the retries.
C19_OtherFailuresRetried ==
  (AfterLookup /\ FirstFailureNot429) => attempts >= 2

\* C19 amended: a failure other than 429 is not retried: after the single
\* attempt the domain gets an errorMessage and available = false, and the loop
\* goes on; only a 429 is retried, once, and a failure of that retry is final.
C19_OtherFailuresNotRetried ==
  /\ (AfterLookup /\ FirstFailureNot429) =>
        /\ attempts = 1
        /\ Len(hist) = 1
        /\ results[i - 1].errorMessage # Undefined
        /\ ~results[i - 1].available
  /\ (AfterLookup /\ Len(hist) = 2) =>
        /\ hist[1].kind = "status" /\ hist[1].status = 429
        /\ attempts = 2
        /\ hist[2].kind # "data" => results[i - 1].errorMessage # Undefined

\* A server error on the first domain: one attempt, the error recorded, and the
\* second domain looked up after it.
C19_Witness ==
  /\ provider = "godaddy"
  /\ pc = "done"
  /\ Len(domains) = 2
  /\ fetchCount = 2
  /\ path = "registrar"
  /\ results[1].errorMessage = Some("API error: 500")
  /\ results[2].errorMessage = Undefined

\* ---------------------------------------------------------------------------
\* C21 as stated: when the agent's generateDomainNames tool is given tlds,
\* every suggestion it returns ends with one of the given tlds; the default
\* tld list is used only when tlds is omitted.
C21_AgentSuppliedTldsOnly ==
  (pc = "agent_done" /\ options.tlds # Undefined) =>
    \A k \in 1..Len(candidates) :
      \E t \in Range(options.tlds[1]) : EndsWith(candidates[k], t)

\* ---------------------------------------------------------------------------
\* C23: the mock never reports a premium domain. For every domain string the
\* result has premium = false and no price, and a name of the premium class
\* (at most 3 characters, or exactly four lower-case letters) is in the
\* likely-taken class, hence unavailable.
C23_MockNeverPremium ==
  MockAnswered =>
    /\ returned[1].premium = FALSE
    /\ returned[1].price = Undefined
    /\ (MockIsPremium(domains[1]) =>
          (MockIsLikelyTaken(domains[1]) /\ returned[1].available = FALSE))

\* A four-letter name outside .com whose hash alone would have made it
\* available: the premium class applies and the answer is still not premium.
C23_Witness ==
  /\ MockAnswered
  /\ IsFourLetters(SplitFirst(domains[1]))
  /\ SliceFromFirstDot(domains[1]) # <<".","c","o","m">>
  /\ SumCodes(domains[1]) % 100 > 30
  /\ returned[1].premium = FALSE
  /\ returned[1].price = Undefined

\* ---------------------------------------------------------------------------
\* C24: in every list checkDomains returns, and in the results array while the
\* loop runs, an entry that carries an errorMessage has available = false,
\* premium = false and no price.
C24_ErrorEntriesUnavailable ==
  /\ \A k \in 1..Len(results) :
       results[k].errorMessage # Undefined =>
         (~results[k].available /\ ~results[k].premium /\ results[k].price = Undefined)
  /\ pc = "done" =>
       \A k \in 1..Len(returned) :
         returned[k].errorMessage # Undefined =>
           (~returned[k].available /\ ~returned[k].premium /\ returned[k].price = Undefined)

\* A GoDaddy call returned with a failed lookup next to an available domain,
\* or a Namecheap call returned the error results of an unparsable body.
C24_Witness ==
  /\ pc = "done" /\ path = "registrar" /\ status = "resolved"
  /\ \E k \in 1..Len(returned) : returned[k].errorMessage # Undefined
  /\ \/ provider = "namecheap"
     \/ \E k \in 1..Len(returned) :
          returned[k].errorMessage = Undefined /\ returned[k].available

\* ---------------------------------------------------------------------------
\* C29 as stated: whenever modifySourceFile returns success = false no commit
\* was made, and a code_modified log entry exists only for a commit that was
\* made.
C29_FailureMeansNoCommit ==
  /\ (pc = "mod_done" /\ ~returned[1].success) => commits = <<>>
  /\ ModifyUnderWay => \A k \in 1..Len(modLog) : modLog[k] \in Range(commits)

\* ---------------------------------------------------------------------------
\* C22 as stated: every batch that the agent's checkDomainAvailability tool or
\* generateAIResponse passes to checkDomains has at most 8 domains.
C22_AtMostEightPerRequest ==
  pc = "caller_passed" => Len(domains) <= 8

(* ---- the savedDomains table (SpecDomains) ---- *)

\* A save or saveInternal has just run and its by_domain lookup found a document.
SavedOver == call.op \in { "save", "saveInternal" } /\ call.existing # <<>>

\* C25 as stated: a save or saveInternal issued for user B never modifies a
\* document that belongs to another user A. After B saves a domain A had
\* saved, A's document still has userId A and A's notes and projectIdea, and
\* listByUser(A) still returns it.
C25_OtherUsersRecordUntouched ==
  (SavedOver /\ call.existing[1].userId # call.args.userId) =>
    LET mine  == call.existing[1]
        after == ById(db, "savedDomains", mine._id)
    IN  /\ Len(after) = 1
        /\ after[1].userId = mine.userId
        /\ after[1].notes = mine.notes
        /\ after[1].projectIdea = mine.projectIdea
        /\ \E k \in 1..Len(listByUser(db, mine.userId)) :
             listByUser(db, mine.userId)[k]._id = mine._id

\* C26: whatever mutations ran, the savedDomains table holds at most one
\* document per domain string and per id; a save or saveInternal of a domain
\* already saved returns the id of the existing document, adds none, writes
\* its arguments and checkedAt to it and leaves its createdAt as it was.
C26_OneRecordPerDomain ==
  /\ \A j, k \in 1..Len(db.savedDomains) :
       j < k => /\ db.savedDomains[j].domain # db.savedDomains[k].domain
                /\ db.savedDomains[j]._id # db.savedDomains[k]._id
  /\ SavedOver =>
       LET after == ById(db, "savedDomains", call.existing[1]._id)
       IN  /\ Len(call.existing) = 1
           /\ call.result = call.existing[1]._id
           /\ Len(after) = 1
           /\ after[1].domain = call.args.domain
           /\ after[1].createdAt = call.existing[1].createdAt
           /\ after[1].checkedAt = call.now
  /\ (call.op \in { "save", "saveInternal" } /\ call.existing = <<>>) =>
       LET made == ById(db, "savedDomains", call.result)
       IN  Len(made) = 1 /\ made[1].domain = call.args.domain
                         /\ made[1].createdAt = call.now

\* A domain saved at one time is saved again later, next to another saved
\* domain: the document keeps its id and its createdAt, and checkedAt moves.
C26_Witness ==
  /\ SavedOver
  /\ Len(db.savedDomains) = 2
  /\ call.result = call.existing[1]._id
  /\ LET after == ById(db, "savedDomains", call.result)
     IN  after[1].createdAt < after[1].checkedAt

(* ---- users, strategies and themes (SpecSetup) ---- *)

\* C27: whatever getOrCreateAnonymous calls ran, the users table holds at most
\* one document per anonymousId, and a call returns the id of that document:
\* the one it found, left as it was, or the one it has just inserted.
C27_OneUserPerAnonymousId ==
  /\ \A j, k \in 1..Len(db.users) :
       j < k => /\ db.users[j].email # db.users[k].email
                /\ db.users[j]._id # db.users[k]._id
  /\ call.op = "getOrCreateAnonymous" =>
       LET mine == SelectSeq(db.users, LAMBDA r : r.email = AnonEmail(call.args))
       IN  /\ Len(mine) = 1
           /\ call.result = mine[1]._id
           /\ call.existing # <<>> => call.existing = mine

\* The second call for an anonymousId, after another visitor got a document
\* too: it returns the id the first call created.
C27_Witness ==
  /\ call.op = "getOrCreateAnonymous"
  /\ call.existing # <<>>
  /\ call.result = call.existing[1]._id
  /\ Len(db.users) = 2

\* The names of the strategies of a table, in creation order.
NamesOf(table) == [k \in 1..Len(table) |-> table[k].name]

\* C30: seeding is idempotent. From any table, two seedDefaults calls leave
\* what one call leaves, and a call on a non-empty table inserts nothing and
\* reports seeded = false; a call on the empty table leaves exactly the four
\* default strategies. The same holds for seedBuiltInThemes and its two themes.
C30_SeedingIdempotent ==
  /\ seedDefaults(seedDefaults(db).db).db = seedDefaults(db).db
  /\ seedBuiltInThemes(seedBuiltInThemes(db).db).db = seedBuiltInThemes(db).db
  /\ db.ideationStrategies # <<>> =>
       (seedDefaults(db).db = db /\ ~seedDefaults(db).result.seeded)
  /\ db.themes # <<>> => seedBuiltInThemes(db).db = db
  /\ call.op = "seedDefaults" =>
       IF call.existing = <<>>
       THEN /\ NamesOf(db.ideationStrategies) = NamesOf(defaultStrategies)
            /\ call.result.seeded /\ call.result.count = 4
       ELSE db.ideationStrategies = call.existing /\ ~call.result.seeded
  /\ call.op = "seedBuiltInThemes" =>
       IF call.existing = <<>>
       THEN NamesOf(db.themes) = << "Claude", "Retro 80s" >>
       ELSE db.themes = call.existing

\* seedDefaults has just run on the table an earlier seeding filled, and the
\* themes were seeded too: the four defaults are there once.
C30_Witness ==
  /\ call.op = "seedDefaults"
  /\ NamesOf(call.existing) = NamesOf(defaultStrategies)
  /\ db.ideationStrategies = call.existing
  /\ NamesOf(db.themes) = NamesOf(builtInThemes)

(* ---- the typing indicator (SpecChatFair) ---- *)

IsTyping == chat # NoChat /\ chat.isTyping

\* C28 as stated: every handleSubmit that sets isTyping to true is eventually
\* followed by isTyping = false, whether createThread, addMessage, chat and
\* generateAIResponse resolve or reject, so the input is enabled again.
C28_TypingEventuallyCleared == IsTyping ~> ~IsTyping

====
